---- MODULE Spec2Model ----
(***************************************************************************)
(* Model of the fact-based knowledge manager: the table codec              *)
(* (models.py), the response parser and reconciliation call                *)
(* (chatgpt_service.py, knowledge_processor.py), the data loaders          *)
(* (hardcoded_data.py, guidelines_loader.py, supabase_service.py), the     *)
(* task classifier (task_generator.py), the task status calls and          *)
(* listings (task_manager.py, supabase_service.py), the task executor      *)
(* (task_executor.py), the health check (knowledge_processor.py) and the   *)
(* table replacement script (scripts/replace_facts.py).                    *)
(*                                                                         *)
(* Text is a sequence of one-character strings, so that the string        *)
(* operations of the code (strip, split, startswith, replace, int, the    *)
(* substring test) are computed and not assumed.                           *)
(***************************************************************************)
EXTENDS Integers, Sequences, FiniteSets, TLC

VARIABLES
    \* codec / parser
    current_knowledge_base, reply_rows, response, updated_knowledge_base,
    warnings, cpc,
    \* one reconciliation call (process_custom_input)
    request_kb, oracle, step_fault, result, ppc,
    \* data sources and the loaders
    supabase_client, remote_fault, remote_facts, remote_guidelines,
    local_snapshot, guidelines_source, local_guidelines_file, loaded,
    \* task classifier
    task, needs_human, kpc,
    \* task store and the status calls
    tasks, last_call,
    \* one run of execute_automated_tasks after the other
    automated_ids, run_tasks, idx, epc, sent_kb, exec_reply, exec_updated,
    completed_count, executed_tasks, oracle_calls, exec_result,
    \* history of the current run: what happened to each task, the last
    \* knowledge base written
    events, last_committed,
    \* the oracle requests of the three call sites, update_knowledge_base
    model_name, requests, upc, ucalls, ukb_reply, ukb_result, generated,
    \* the Slack handler
    http_response,
    \* TaskManager listings: the latest get_automated_tasks and get_human_tasks
    automated_listing, human_listing,
    \* test_system_health: what the check meets, and the returned status
    health_input, health_status,
    \* scripts/replace_facts.py: the CSV file, what read_csv gave, position,
    \* exit status, and the facts table as it was when the script started
    csv_file, csv_rows, spc, script_exit, table_before,
    \* two executor runs on one store: position, knowledge base read, knowledge
    \* base to write and result of each run, and the order of the writes
    rpc, rsent, rupdated, rresult, writes

codecVars == <<current_knowledge_base, reply_rows, response,
               updated_knowledge_base, warnings, cpc>>

procVars == <<request_kb, oracle, step_fault, result, ppc>>

loadVars == <<supabase_client, remote_fault, remote_facts, remote_guidelines,
              local_snapshot, guidelines_source, local_guidelines_file, loaded>>

classVars == <<task, needs_human, kpc>>

taskVars == <<tasks, last_call>>

execVars == <<automated_ids, run_tasks, idx, epc, sent_kb, exec_reply,
              exec_updated, completed_count, executed_tasks, oracle_calls,
              exec_result, events, last_committed>>

oracleVars == <<model_name, requests, upc, ucalls, ukb_reply, ukb_result,
                generated>>

slackVars == <<http_response>>

managerVars == <<automated_listing, human_listing>>

healthVars == <<health_input, health_status>>

scriptVars == <<csv_file, csv_rows, spc, script_exit, table_before>>

raceVars == <<rpc, rsent, rupdated, rresult, writes>>

extraVars == <<managerVars, healthVars, scriptVars, raceVars>>

vars == <<codecVars, procVars, loadVars, classVars, taskVars, execVars,
          oracleVars, slackVars,
          extraVars>>

(***************************************************************************)
(* Bounds of the model.                                                    *)
(***************************************************************************)
\* longest fact list of an input KnowledgeBase
MaxFacts == 2
\* most rows after the header/separator of an oracle reply
MaxRows == 3
\* most rows of the oracle's reply within a reconciliation call
MaxOracleRows == 2
\* most words of a task text
MaxWords == 3
\* number of tasks in the task store
MaxTasks == 2
\* lines of a reply whose layout is free
MaxLines == 3
\* most data lines of the CSV file
MaxCsvRows == 2

(***************************************************************************)
(* Python str operations, over sequences of characters.                    *)
(***************************************************************************)
\* the characters str.strip() with no argument removes
Whitespace == {" ", "\n", "\t", "\r"}

Digits == {"0", "1", "2", "3", "4", "5", "6", "7", "8", "9"}

\* s[i:] for a 1-based i
DropTo(s, i) == SubSeq(s, i, Len(s))

\* s.startswith(p)
StartsWith(s, p) == Len(p) <= Len(s) /\ SubSeq(s, 1, Len(p)) = p

\* s.endswith(p)
EndsWith(s, p) ==
    Len(p) <= Len(s) /\ SubSeq(s, Len(s) - Len(p) + 1, Len(s)) = p

\* s.strip(chars): from the first to the last character outside chars
StripChars(s, chars) ==
    LET keep == {i \in 1..Len(s) : s[i] \notin chars} IN
    IF keep = {} THEN <<>>
    ELSE SubSeq(s, CHOOSE i \in keep : \A j \in keep : i <= j,
                   CHOOSE i \in keep : \A j \in keep : j <= i)

\* s.strip()
Strip(s) == StripChars(s, Whitespace)

\* s.split(sep) for a one-character sep: one piece more than there are seps
Split(s, sep) ==
    LET at     == {i \in 1..Len(s) : s[i] = sep}
        n      == Cardinality(at)
        pos(k) == IF k = 0 THEN 0
                  ELSE IF k = n + 1 THEN Len(s) + 1
                  ELSE CHOOSE i \in at : Cardinality({j \in at : j < i}) = k - 1
    IN  [k \in 1..(n + 1) |-> SubSeq(s, pos(k - 1) + 1, pos(k) - 1)]

\* sep.join(parts)
RECURSIVE Join(_, _)
Join(parts, sep) ==
    IF parts = <<>> THEN <<>>
    ELSE IF Len(parts) = 1 THEN parts[1]
    ELSE parts[1] \o sep \o Join(Tail(parts), sep)

\* s.replace(old, ""): leftmost non-overlapping occurrences removed
RECURSIVE RemoveAll(_, _)
RemoveAll(s, old) ==
    IF s = <<>> THEN <<>>
    ELSE IF StartsWith(s, old) THEN RemoveAll(DropTo(s, Len(old) + 1), old)
    ELSE <<Head(s)>> \o RemoveAll(Tail(s), old)

\* sub in s
Contains(s, sub) ==
    \E i \in 1..(Len(s) - Len(sub) + 1) : SubSeq(s, i, i + Len(sub) - 1) = sub

DigitValue(c) ==
    CASE c = "0" -> 0 [] c = "1" -> 1 [] c = "2" -> 2 [] c = "3" -> 3
      [] c = "4" -> 4 [] c = "5" -> 5 [] c = "6" -> 6 [] c = "7" -> 7
      [] c = "8" -> 8 [] c = "9" -> 9

DigitChar(d) == <<"0", "1", "2", "3", "4", "5", "6", "7", "8", "9">>[d + 1]

\* value of a digit string, most significant digit first; "_" is skipped
RECURSIVE DigitsValue(_, _)
DigitsValue(s, acc) ==
    IF s = <<>> THEN acc
    ELSE IF Head(s) = "_" THEN DigitsValue(Tail(s), acc)
    ELSE DigitsValue(Tail(s), 10 * acc + DigitValue(Head(s)))

\* the literal int() accepts after the sign: digits, single "_" between digits
IsIntBody(s) ==
    /\ s # <<>>
    /\ \A i \in 1..Len(s) : s[i] \in Digits \cup {"_"}
    /\ s[1] \in Digits /\ s[Len(s)] \in Digits
    /\ \A i \in 1..(Len(s) - 1) : ~(s[i] = "_" /\ s[i + 1] = "_")

\* int(s): [ok |-> TRUE, value |-> n], or [ok |-> FALSE] for a ValueError
ParseInt(s) ==
    LET t    == Strip(s)
        neg  == t # <<>> /\ Head(t) = "-"
        body == IF t # <<>> /\ Head(t) \in {"-", "+"} THEN Tail(t) ELSE t
    IN  IF IsIntBody(body)
        THEN [ok |-> TRUE,
              value |-> IF neg THEN 0 - DigitsValue(body, 0)
                        ELSE DigitsValue(body, 0)]
        ELSE [ok |-> FALSE, value |-> 0]

\* str(n) for n >= 0
RECURSIVE NatToStr(_)
NatToStr(n) ==
    IF n < 10 THEN <<DigitChar(n)>>
    ELSE NatToStr(n \div 10) \o <<DigitChar(n % 10)>>

\* str(n), the f-string rendering of an int
IntToStr(n) == IF n < 0 THEN <<"-">> \o NatToStr(0 - n) ELSE NatToStr(n)

\* the elements of a sequence
SeqRange(q) == {q[i] : i \in 1..Len(q)}

(***************************************************************************)
(* models.py: Fact, KnowledgeBase and the table encoder.                   *)
(***************************************************************************)
Fact(number, description, last_validated) ==
    [number |-> number, description |-> description,
     last_validated |-> last_validated]

KnowledgeBase(title, facts) == [title |-> title, facts |-> facts]

\* to_table_row writing the number without the bold markers
to_table_row_plain(fact) ==
    <<"|", " ">> \o IntToStr(fact.number) \o
    <<" ", "|", " ">> \o fact.description \o
    <<" ", "|", " ">> \o fact.last_validated \o <<" ", "|">>

\* Fact.to_table_row: "| **{number}** | {description} | {last_validated} |"
to_table_row(fact) ==
    <<"|", " ", "*", "*">> \o IntToStr(fact.number) \o
    <<"*", "*", " ", "|", " ">> \o fact.description \o
    <<" ", "|", " ">> \o fact.last_validated \o <<" ", "|">>

table_header ==
    <<"|", " ", "*", "*", "#", "*", "*", " ", "|", " ", "*", "*", "F", "a",
      "c", "t", "*", "*", " ", "|", " ", "*", "*", "T", "i", "m", "e", " ",
      "L", "a", "s", "t", " ", "V", "a", "l", "i", "d", "a", "t", "e", "d",
      "*", "*", " ", "|", "\n">>

table_separator ==
    <<"|", " ", "-", "-", "-", "-", "-", " ", "|", " ", "-", "-", "-", "-",
      "-", "-", "-", "-", " ", "|", " ", "-", "-", "-", "-", "-", "-", "-",
      "-", "-", "-", "-", "-", "-", "-", "-", "-", "-", "-", "-", "-", "-",
      "-", "-", " ", "|", "\n">>

\* KnowledgeBase.to_markdown
to_markdown(kb) ==
    <<"#", " ">> \o kb.title \o <<"\n", "\n">> \o table_header \o
    table_separator \o
    Join([i \in 1..Len(kb.facts) |-> to_table_row(kb.facts[i])], <<"\n">>)

(***************************************************************************)
(* chatgpt_service.py: ChatGPTService._parse_knowledge_base_response.      *)
(***************************************************************************)
DefaultTitle == <<"C", "u", "r", "r", "e", "n", "t", " ", "R", "N", " ", "P", "r", "o", "j", "e", "c", "t", " ", "F", "a", "c", "t", "s">>

\* the title loop without the test for "##": any heading line gives the title
RECURSIVE FindTitle_any_heading(_)
FindTitle_any_heading(lines) ==
    IF lines = <<>> THEN DefaultTitle
    ELSE IF StartsWith(Head(lines), <<"#">>)
         THEN Strip(StripChars(Head(lines), {"#", " "}))
         ELSE FindTitle_any_heading(Tail(lines))

\* the title loop: the first line that starts with "#" and not with "##"
RECURSIVE FindTitle(_)
FindTitle(lines) ==
    IF lines = <<>> THEN DefaultTitle
    ELSE IF StartsWith(Head(lines), <<"#">>) /\ ~StartsWith(Head(lines), <<"#", "#">>)
         THEN Strip(StripChars(Head(lines), {"#", " "}))
         ELSE FindTitle(Tail(lines))

\* line.startswith('| **#**') or line.startswith('| -----')
IsMarkerLine(line) ==
    \/ StartsWith(line, <<"|", " ", "*", "*", "#", "*", "*">>)
    \/ StartsWith(line, <<"|", " ", "-", "-", "-", "-", "-">>)

\* the row test without in_table
IsCandidateRow_ungated(line, in_table) ==
    /\ StartsWith(line, <<"|", " ", "*", "*">>)
    /\ EndsWith(line, <<" ", "|">>)

\* in_table and line.startswith('| **') and line.endswith(' |')
IsCandidateRow(line, in_table) ==
    /\ in_table
    /\ StartsWith(line, <<"|", " ", "*", "*">>)
    /\ EndsWith(line, <<" ", "|">>)

\* [part.strip() for part in line.split('|')[1:-1]]
RowParts(line) ==
    LET pieces == Split(line, "|")
        inner  == SubSeq(pieces, 2, Len(pieces) - 1)
    IN  [i \in 1..Len(inner) |-> Strip(inner[i])]

\* ParseLine with a row that fails int() ending the table (break for continue)
ParseLine_break(raw, st) ==
    LET line == Strip(raw) IN
    IF IsMarkerLine(line) THEN [st EXCEPT !.in_table = TRUE]
    ELSE IF IsCandidateRow(line, st.in_table)
    THEN LET parts == RowParts(line) IN
         IF Len(parts) >= 3
         THEN LET number == ParseInt(Strip(RemoveAll(parts[1], <<"*", "*">>))) IN
              IF number.ok
              THEN [st EXCEPT !.facts =
                       Append(@, Fact(number.value, Strip(parts[2]), Strip(parts[3])))]
              ELSE [st EXCEPT !.warnings = @ + 1, !.in_table = FALSE]
         ELSE st
    ELSE st

\* one pass of the table loop over a line; st = [in_table, facts, warnings]
ParseLine(raw, st) ==
    LET line == Strip(raw) IN
    IF IsMarkerLine(line) THEN [st EXCEPT !.in_table = TRUE]
    ELSE IF IsCandidateRow(line, st.in_table)
    THEN LET parts == RowParts(line) IN
         IF Len(parts) >= 3
         THEN LET number == ParseInt(Strip(RemoveAll(parts[1], <<"*", "*">>))) IN
              IF number.ok
              THEN [st EXCEPT !.facts =
                       Append(@, Fact(number.value, Strip(parts[2]), Strip(parts[3])))]
              ELSE \* except (ValueError, IndexError): logger.warning, continue
                   [st EXCEPT !.warnings = @ + 1]
         ELSE st
    ELSE st

RECURSIVE ParseLines(_, _)
ParseLines(lines, st) ==
    IF lines = <<>> THEN st
    ELSE ParseLines(Tail(lines), ParseLine(Head(lines), st))

\* the parsed KnowledgeBase, with the number of warnings the parser logged
parse_knowledge_base_response(text) ==
    LET lines == Split(Strip(text), "\n")
        st    == ParseLines(lines, [in_table |-> FALSE, facts |-> <<>>, warnings |-> 0])
    IN  [title |-> FindTitle(lines), facts |-> st.facts, warnings |-> st.warnings]

(***************************************************************************)
(* Inputs of the codec and parser specifications.                          *)
(***************************************************************************)
\* sequences over S of length at most n
BoundedSeq(S, n) == UNION {[1..k -> S] : k \in 0..n}

NoKB == [title |-> <<"<", "n", "o", "n", "e", ">">>, facts |-> <<>>, none |-> TRUE]

TitleInputs ==
    {<<"K", "B">>, <<"#", "K">>, <<"K", " ">>, <<>>}

DescriptionInputs ==
    {<<"a">>, <<" ", "a">>, <<"a", "|", "b">>}

DateInputs ==
    {<<"2", "0", "2", "5", "-", "0", "1", "-", "1", "5">>, <<"T", "B", "D", " ">>}

NumberInputs == {1, 12}

FactInputs ==
    {Fact(n, d, v) : n \in NumberInputs, d \in DescriptionInputs, v \in DateInputs}

KBInputs ==
    {KnowledgeBase(t, fs) : t \in TitleInputs, fs \in BoundedSeq(FactInputs, MaxFacts)}

ReplyDate == <<"2", "0", "2", "5", "-", "0", "1", "-", "1", "5">>

\* rows an oracle reply can hold after the separator: rows as the encoder writes
\* them (wf), and rows broken in one of four ways
WellFormedRows ==
    {[wf |-> TRUE, fact |-> f, line |-> to_table_row(f)] :
        f \in {Fact(1, <<"a">>, ReplyDate), Fact(1, <<"b">>, ReplyDate),
               Fact(12, <<"a">>, ReplyDate)}}

MalformedLines ==
    {<<"|", " ", "*", "*", "x", "*", "*", " ", "|", " ", "a", " ", "|", " ", "2", "0", "2", "5", "-", "0", "1", "-", "1", "5", " ", "|">>,
     <<"|", " ", "*", "*", "1", "*", "*", " ", "|", " ", "a", " ", "|">>,
     <<"*", "*", "1", "*", "*", " ", "|", " ", "a", " ", "|", " ", "2", "0", "2", "5", "-", "0", "1", "-", "1", "5", " ", "|">>,
     <<"|", " ", "*", "*", "1", "*", "*", " ", "|", " ", "a", " ", "|", " ", "2", "0", "2", "5", "-", "0", "1", "-", "1", "5">>}

MalformedRows ==
    {[wf |-> FALSE, fact |-> Fact(0, <<>>, <<>>), line |-> l] : l \in MalformedLines}

RowInputs == WellFormedRows \cup MalformedRows

\* the reply text: optional title line, header, separator, then the rows
ReplyText(with_title, rows) ==
    (IF with_title THEN <<"#", " ">> \o DefaultTitle \o <<"\n", "\n">> ELSE <<>>) \o
    table_header \o table_separator \o
    Join([i \in 1..Len(rows) |-> rows[i].line], <<"\n">>)

(***************************************************************************)
(* Codec and parser: state and actions.                                    *)
(***************************************************************************)
IdleCodec ==
    /\ current_knowledge_base = NoKB
    /\ reply_rows = <<>>
    /\ response = <<>>
    /\ updated_knowledge_base = NoKB
    /\ warnings = 0
    /\ cpc = "idle"

InitCodec ==
    /\ current_knowledge_base \in KBInputs
    /\ reply_rows = <<>>
    /\ response = <<>>
    /\ updated_knowledge_base = NoKB
    /\ warnings = 0
    /\ cpc = "kb"

InitParser ==
    /\ current_knowledge_base = NoKB
    /\ reply_rows \in BoundedSeq(RowInputs, MaxRows)
    /\ \E with_title \in BOOLEAN : response = ReplyText(with_title, reply_rows)
    /\ updated_knowledge_base = NoKB
    /\ warnings = 0
    /\ cpc = "reply"

\* a text without its last character
ChopLast(s) == SubSeq(s, 1, Len(s) - 1)

\* one line of a reply; fact is meant for kind "row" only
ReplyLine(kind, line, fact) == [kind |-> kind, line |-> line, fact |-> fact, wf |-> kind = "row"]

\* lines a reply can be made of, in any order: heading lines of level 1 and 2,
\* the two marker lines, fact rows as the prompt asks for them, and prose
LineInputs ==
    {ReplyLine("title", <<"#", " ", "K", "B">>, Fact(0, <<>>, <<>>)),
     ReplyLine("title", <<"#", "N", "e", "w">>, Fact(0, <<>>, <<>>)),
     ReplyLine("subheading", <<"#", "#", " ", "S", "u", "b">>, Fact(0, <<>>, <<>>)),
     ReplyLine("marker", ChopLast(table_header), Fact(0, <<>>, <<>>)),
     ReplyLine("marker", ChopLast(table_separator), Fact(0, <<>>, <<>>)),
     ReplyLine("text", <<"U", "p", "d", "a", "t", "e", "d", ":">>, Fact(0, <<>>, <<>>))}
    \cup
    {ReplyLine("row", to_table_row(f), f) :
        f \in {Fact(1, <<"a">>, ReplyDate), Fact(12, <<"b">>, ReplyDate)}}

\* a reply whose lines come in any order
InitLayout ==
    /\ current_knowledge_base = NoKB
    /\ reply_rows \in BoundedSeq(LineInputs, MaxLines) \ {<<>>}
    /\ response = Join([i \in 1..Len(reply_rows) |-> reply_rows[i].line], <<"\n">>)
    /\ updated_knowledge_base = NoKB
    /\ warnings = 0
    /\ cpc = "reply"

\* current_knowledge_base.to_markdown()
ToMarkdown ==
    /\ cpc = "kb"
    /\ response' = to_markdown(current_knowledge_base)
    /\ cpc' = "reply"
    /\ UNCHANGED <<current_knowledge_base, reply_rows, updated_knowledge_base, warnings>>
    /\ UNCHANGED <<extraVars, procVars, loadVars, classVars, taskVars, execVars, oracleVars,
                   slackVars>>

\* _parse_knowledge_base_response(response)
ParseResponse ==
    /\ cpc = "reply"
    /\ LET r == parse_knowledge_base_response(response) IN
        /\ updated_knowledge_base' = KnowledgeBase(r.title, r.facts)
        /\ warnings' = r.warnings
    /\ cpc' = "parsed"
    /\ UNCHANGED <<current_knowledge_base, reply_rows, response>>
    /\ UNCHANGED <<extraVars, procVars, loadVars, classVars, taskVars, execVars, oracleVars,
                   slackVars>>

(***************************************************************************)
(* chatgpt_service.py, knowledge_processor.py: one reconciliation call.    *)
(***************************************************************************)
None == "<None>"

\* what the oracle call gives: a transport error, a message with no content,
\* or reply text (rows names the rows the text was built from)
OracleOutcomes ==
    {[kind |-> "raise", rows |-> <<>>, content |-> <<>>],
     [kind |-> "no_content", rows |-> <<>>, content |-> <<>>],
     [kind |-> "reply", rows |-> <<>>, content |-> <<>>],
     [kind |-> "reply", rows |-> <<>>,
      content |-> <<"S", "o", "r", "r", "y", ",", " ", "I", " ", "c", "a", "n", "n", "o", "t", " ", "h", "e", "l", "p", ".">>]}
    \cup
    {[kind |-> "reply", rows |-> r, content |-> ReplyText(t, r)] :
        r \in BoundedSeq(RowInputs, MaxOracleRows), t \in BOOLEAN}

RequestInputs ==
    {KnowledgeBase(DefaultTitle, <<>>),
     KnowledgeBase(DefaultTitle,
        <<Fact(1, <<"C", "o", "v", "e", "r", "a", "g", "e", " ", "i", "s", " ", "6", "0", "%">>, <<"2", "0", "2", "5", "-", "0", "1", "-", "0", "1">>)>>),
     KnowledgeBase(DefaultTitle,
        <<Fact(1, <<"a">>, ReplyDate), Fact(12, <<"b">>, ReplyDate)>>)}

\* ChatGPTService.update_knowledge_base: None (NoKB) when anything in the try
\* block raises, else whatever the parser returns
update_knowledge_base(current, o) ==
    IF o.kind = "raise" THEN NoKB
    ELSE IF o.kind = "no_content" THEN NoKB
    ELSE LET r == parse_knowledge_base_response(o.content)
         IN  KnowledgeBase(r.title, r.facts)

ProcessingResponse(kb, success, error_message) ==
    [updated_knowledge_base |-> kb, success |-> success,
     error_message |-> error_message]

\* process_custom_input with the fallbacks returning what the service returned
process_custom_input_no_fallback(request, o, fault) ==
    LET updated == update_knowledge_base(request, o) IN
    IF fault
    THEN ProcessingResponse(updated, FALSE, "Processing failed: <error>")
    ELSE IF updated = NoKB
    THEN ProcessingResponse(updated, FALSE,
            "Failed to update knowledge base - ChatGPT service returned None")
    ELSE ProcessingResponse(updated, TRUE, None)

\* process_custom_input with the None branch leaving error_message unset
process_custom_input_no_message(request, o, fault) ==
    LET updated == update_knowledge_base(request, o) IN
    IF fault
    THEN ProcessingResponse(request, FALSE, "Processing failed: <error>")
    ELSE IF updated = NoKB
    THEN ProcessingResponse(request, FALSE, None)
    ELSE ProcessingResponse(updated, TRUE, None)

\* KnowledgeProcessor.process_custom_input; fault: a step of its try block
\* after the service call raises
process_custom_input(request, o, fault) ==
    LET updated == update_knowledge_base(request, o) IN
    IF fault
    THEN ProcessingResponse(request, FALSE, "Processing failed: <error>")
    ELSE IF updated = NoKB
    THEN ProcessingResponse(request, FALSE,
            "Failed to update knowledge base - ChatGPT service returned None")
    ELSE ProcessingResponse(updated, TRUE, None)

IdleProcess ==
    /\ request_kb = NoKB
    /\ oracle = [kind |-> "none", rows |-> <<>>, content |-> <<>>]
    /\ step_fault = FALSE
    /\ result = ProcessingResponse(NoKB, FALSE, None)
    /\ ppc = "idle"

InitProcess ==
    /\ request_kb \in RequestInputs
    /\ oracle = [kind |-> "none", rows |-> <<>>, content |-> <<>>]
    /\ step_fault = FALSE
    /\ result = ProcessingResponse(NoKB, FALSE, None)
    /\ ppc = "request"

ProcessCustomInput ==
    /\ ppc = "request"
    /\ \E o \in OracleOutcomes, fault \in BOOLEAN :
          /\ oracle' = o
          /\ step_fault' = fault
          /\ result' = process_custom_input(request_kb, o, fault)
    /\ ppc' = "returned"
    /\ UNCHANGED request_kb
    /\ UNCHANGED <<extraVars, codecVars, loadVars, classVars, taskVars, execVars, oracleVars,
                   slackVars>>

(***************************************************************************)
(* hardcoded_data.py, supabase_service.py, guidelines_loader.py: loading   *)
(* the current facts and the guidelines.                                   *)
(***************************************************************************)
HardcodedFacts ==
    <<Fact(1,
        <<"R", "e", "w", "a", "r", "d", "s", " ", "N", "e", "t", "w", "o", "r",
          "k", " ", "(", "R", "N", ")", " ", "i", "s", " ", "a", " ", "n", "e",
          "t", "w", "o", "r", "k", " ", "o", "f", " ", "~", "1", "8", " ", "0",
          "0", "0", " ", "l", "o", "c", "a", "l", " ", "r", "e", "s", "t", "a",
          "u", "r", "a", "n", "t", "s", " ", "w", "h", "o", "s", "e", " ", "r",
          "e", "c", "e", "i", "p", "t", "s", " ", "e", "a", "r", "n", " ", "a",
          " ", "%", "-", "b", "a", "c", "k", " ", "r", "e", "w", "a", "r", "d",
          " ", "a", "n", "d", " ", "w", "i", "l", "l", " ", "b", "e", " ", "i",
          "n", "g", "e", "s", "t", "e", "d", " ", "a", "s", " ", "r", "e", "g",
          "u", "l", "a", "r", " ", "F", "e", "t", "c", "h", " ", "o", "f", "f",
          "e", "r", "s", ".">>,
        <<"2", "0", "2", "5", "-", "0", "4", "-", "1", "5">>),
      Fact(2,
        <<"R", "N", " ", "i", "n", "t", "e", "g", "r", "a", "t", "i", "o", "n",
          " ", "c", "u", "r", "r", "e", "n", "t", "l", "y", " ", "h", "a", "s",
          " ", "~", "1", "1", ",", "2", "8", "7", " ", "l", "i", "v", "e", " ",
          "o", "f", "f", "e", "r", "s", " ", "(", "s", "c", "a", "l", "e", "d",
          " ", "f", "r", "o", "m", " ", "i", "n", "i", "t", "i", "a", "l", " ",
          "1", "4", "0", ")", ",", " ", "w", "i", "t", "h", " ", "l", "o", "c",
          "a", "t", "i", "o", "n", " ", "m", "a", "t", "c", "h", "i", "n", "g",
          " ", "a", "n", "d", " ", "c", "r", "e", "d", "i", "t", " ", "c", "a",
          "r", "d", " ", "c", "a", "p", "t", "u", "r", "e", " ", "i", "s", "s",
          "u", "e", "s", " ", "h", "a", "v", "i", "n", "g", " ", "l", "i", "m",
          "i", "t", "e", "d", " ", "t", "h", "e", " ", "r", "o", "l", "l", "o",
          "u", "t", " ", "f", "r", "o", "m", " ", "t", "h", "e", " ", "p", "l",
          "a", "n", "n", "e", "d", " ", "1", "4", " ", "4", "0", "0", ".">>,
        <<"2", "0", "2", "5", "-", "0", "6", "-", "1", "1">>),
      Fact(6,
        <<"K", "e", "y", " ", "r", "e", "s", "u", "l", "t", "s", " ", "i", "n",
          "c", "l", "u", "d", "e", " ", "g", "e", "n", "e", "r", "a", "t", "i",
          "n", "g", " ", "$", "1", "0", ".", "6", " ", "M", " ", "A", "R", "R",
          " ", "b", "y", " ", "E", "O", "Q", "2", " ", "2", "0", "2", "5", " ",
          "a", "n", "d", " ", "$", "1", "1", ".", "6", " ", "M", " ", "r", "e",
          "v", "e", "n", "u", "e", " ", "i", "n", " ", "F", "Y", "2", "5", ".",
          " ", "C", "u", "r", "r", "e", "n", "t", " ", "A", "R", "R", " ", "i",
          "s", " ", "$", "8", ".", "7", "M", " ", "a", "s", " ", "o", "f", " ",
          "J", "u", "n", "e", " ", "2", "0", "2", "5", ".">>,
        <<"2", "0", "2", "5", "-", "0", "6", "-", "1", "1">>),
      Fact(7,
        <<"T", "a", "r", "g", "e", "t", " ", "i", "s", " ", "9", "0", "%", " ",
          "o", "f", " ", "r", "e", "s", "t", "a", "u", "r", "a", "n", "t", "s",
          " ", "i", "n", "-", "a", "p", "p", " ", "b", "y", " ", "e", "n", "d",
          " ", "o", "f", " ", "y", "e", "a", "r", ".", " ", "C", "u", "r", "r",
          "e", "n", "t", " ", "c", "o", "v", "e", "r", "a", "g", "e", " ", "i",
          "s", " ", "6", "2", ".", "0", "%", ".">>,
        <<"2", "0", "2", "5", "-", "0", "6", "-", "1", "1">>),
      Fact(8,
        <<"C", "a", "r", "d", "-", "i", "n", "f", "o", " ", "c", "a", "p", "t",
          "u", "r", "e", " ", "g", "o", "a", "l", "s", " ", "r", "i", "s", "e",
          " ", "t", "o", " ", "6", "5", "%", " ", "o", "f", " ", "r", "e", "c",
          "e", "i", "p", "t", "s", " ", "i", "n", " ", "H", "1", " ", "a", "n",
          "d", " ", "8", "0", "%", " ", "i", "n", " ", "H", "2", ".", " ", "C",
          "u", "r", "r", "e", "n", "t", " ", "c", "a", "p", "t", "u", "r", "e",
          " ", "r", "a", "t", "e", " ", "i", "s", " ", "5", "3", ".", "8", "%",
          ".">>,
        <<"2", "0", "2", "5", "-", "0", "6", "-", "1", "1">>),
      Fact(22,
        <<"P", "a", "y", "m", "e", "n", "t", " ", "c", "a", "p", "t", "u", "r",
          "e", " ", "f", "e", "a", "t", "u", "r", "e", " ", "t", "o", "o", "l",
          "i", "n", "g", " ", "c", "o", "d", "e", " ", "i", "s", " ", "c", "o",
          "m", "p", "l", "e", "t", "e", " ", "b", "u", "t", " ", "n", "o", "t",
          " ", "y", "e", "t", " ", "r", "e", "l", "e", "a", "s", "e", "d", ";",
          " ", "w", "i", "l", "l", " ", "r", "e", "d", "u", "c", "e", " ", "s",
          "u", "p", "p", "o", "r", "t", " ", "l", "i", "f", "t", " ", "o", "n",
          "c", "e", " ", "d", "e", "p", "l", "o", "y", "e", "d", ".">>,
        <<"2", "0", "2", "5", "-", "0", "6", "-", "1", "1">>),
      Fact(31,
        <<"P", "a", "y", "m", "e", "n", "t", " ", "c", "a", "p", "t", "u", "r",
          "e", " ", "f", "e", "a", "t", "u", "r", "e", " ", "h", "a", "s", " ",
          "t", "w", "o", " ", "c", "o", "m", "p", "o", "n", "e", "n", "t", "s",
          ":", " ", "r", "e", "s", "c", "a", "n", " ", "p", "r", "o", "m", "p",
          "t", " ", "(", "b", "a", "c", "k", "e", "n", "d", " ", "i", "n", " ",
          "r", "e", "v", "i", "e", "w", ",", " ", "m", "o", "b", "i", "l", "e",
          " ", "c", "o", "m", "p", "l", "e", "t", "e", ")", " ", "a", "n", "d",
          " ", "m", "a", "n", "u", "a", "l", " ", "c", "a", "r", "d", " ", "i",
          "n", "p", "u", "t", " ", "w", "i", "t", "h", " ", "c", "r", "o", "s",
          "s", "-", "r", "e", "f", "e", "r", "e", "n", "c", "i", "n", "g", " ",
          "v", "a", "l", "i", "d", "a", "t", "i", "o", "n", " ", "(", "p", "o",
          "s", "t", "p", "o", "n", "e", "d", " ", "w", "h", "i", "l", "e", " ",
          "C", "h", "a", "t", "G", "P", "T", " ", "A", "P", "I", " ", "i", "m",
          "p", "r", "o", "v", "e", "m", "e", "n", "t", "s", " ", "a", "r", "e",
          " ", "i", "n", " ", "p", "r", "o", "g", "r", "e", "s", "s", ")", ".">>,
        <<"2", "0", "2", "5", "-", "0", "6", "-", "1", "1">>),
      Fact(51,
        <<"C", "u", "r", "r", "e", "n", "t", " ", "R", "N", " ", "r", "e", "s",
          "t", "a", "u", "r", "a", "n", "t", " ", "c", "o", "v", "e", "r", "a",
          "g", "e", " ", "i", "s", " ", "6", "2", ".", "0", "%", " ", "w", "i",
          "t", "h", " ", "1", "1", ",", "2", "8", "7", " ", "a", "c", "t", "i",
          "v", "e", " ", "o", "f", "f", "e", "r", "s", " ", "o", "u", "t", " ",
          "o", "f", " ", "1", "8", ",", "0", "0", "0", " ", "p", "o", "s", "s",
          "i", "b", "l", "e", " ", "r", "e", "s", "t", "a", "u", "r", "a", "n",
          "t", "s", " ", "i", "n", " ", "t", "h", "e", " ", "n", "e", "t", "w",
          "o", "r", "k", ".">>,
        <<"2", "0", "2", "5", "-", "0", "6", "-", "1", "1">>),
      Fact(55,
        <<"P", "a", "y", "m", "e", "n", "t", " ", "c", "a", "p", "t", "u", "r",
          "e", " ", "f", "e", "a", "t", "u", "r", "e", " ", "w", "a", "s", " ",
          "a", "p", "p", "r", "o", "v", "e", "d", " ", "i", "n", " ", "M", "a",
          "r", "c", "h", " ", "2", "0", "2", "5", " ", "f", "o", "l", "l", "o",
          "w", "i", "n", "g", " ", "a", " ", "s", "t", "a", "k", "e", "h", "o",
          "l", "d", "e", "r", " ", "p", "r", "e", "s", "e", "n", "t", "a", "t",
          "i", "o", "n", " ", "t", "h", "a", "t", " ", "a", "d", "d", "r", "e",
          "s", "s", "e", "d", " ", "f", "e", "a", "t", "u", "r", "e", "-", "r",
          "i", "s", "k", " ", "c", "o", "n", "c", "e", "r", "n", "s", ";", " ",
          "a", " ", "c", "o", "m", "p", "r", "e", "h", "e", "n", "s", "i", "v",
          "e", " ", "r", "i", "s", "k", " ", "a", "n", "a", "l", "y", "s", "i",
          "s", " ", "p", "r", "o", "j", "e", "c", "t", "e", "d", " ", "v", "e",
          "r", "y", " ", "l", "o", "w", " ", "e", "r", "r", "o", "r", " ", "r",
          "a", "t", "e", "s", " ", "f", "o", "r", " ", "m", "o", "s", "t", " ",
          "u", "s", "e", "r", "s", ".">>,
        <<"2", "0", "2", "5", "-", "0", "6", "-", "1", "1">>),
      Fact(57,
        <<"R", "N", " ", "d", "e", "a", "c", "t", "i", "v", "a", "t", "e", "s",
          " ", "a", "n", "d", " ", "a", "c", "t", "i", "v", "a", "t", "e", "s",
          " ", "o", "f", "f", "e", "r", "s", " ", "d", "a", "i", "l", "y", " ",
          "b", "a", "s", "e", "d", " ", "o", "n", " ", "r", "e", "s", "t", "a",
          "u", "r", "a", "n", "t", " ", "p", "a", "r", "t", "i", "c", "i", "p",
          "a", "t", "i", "o", "n", ".", " ", "O", "f", "f", "e", "r", " ", "r",
          "e", "a", "c", "t", "i", "v", "a", "t", "i", "o", "n", " ", "f", "u",
          "n", "c", "t", "i", "o", "n", "a", "l", "i", "t", "y", " ", "h", "a",
          "s", " ", "n", "o", "t", " ", "y", "e", "t", " ", "b", "e", "e", "n",
          " ", "i", "m", "p", "l", "e", "m", "e", "n", "t", "e", "d", ".">>,
        <<"2", "0", "2", "5", "-", "0", "6", "-", "1", "1">>)>>

\* the built-in knowledge base
HardcodedKB == KnowledgeBase(DefaultTitle, HardcodedFacts)

\* guideline texts are opaque: each source's text is one value
HardcodedGuidelines == "# Knowledge Management Guidelines (hardcoded_data.py)"

RemoteGuidelines == "guidelines row 1 of the remote store"

LocalGuidelines == "content of guidelines-local.md"

\* the local facts snapshot (scripts/../src/full-hardcoded-facts.csv), when present
LocalSnapshotKB ==
    KnowledgeBase(DefaultTitle, <<Fact(1, <<"l", "o", "c", "a", "l">>, ReplyDate)>>)

\* contents of the remote facts table: rows keyed by number
RemoteFactSets ==
    {{},
     {Fact(1, <<"r", "e", "m", "o", "t", "e">>, ReplyDate)},
     {Fact(12, <<"b">>, ReplyDate), Fact(2, <<"a">>, ReplyDate)}}

\* .order("number"): the rows as a sequence, lowest number first
RECURSIVE OrderByNumber(_)
OrderByNumber(rows) ==
    IF rows = {} THEN <<>>
    ELSE LET first == CHOOSE r \in rows : \A q \in rows : r.number <= q.number
         IN  <<first>> \o OrderByNumber(rows \ {first})

Loaded(call, kb, text, raised, tiers) ==
    [call |-> call, kb |-> kb, text |-> text, raised |-> raised, tiers |-> tiers]

\* get_current_knowledge_base(): the list written in the function
get_current_knowledge_base ==
    Loaded("get_current_knowledge_base", HardcodedKB, None, FALSE, <<"default">>)

\* get_knowledge_guidelines(): the text written in the function
get_knowledge_guidelines ==
    Loaded("get_knowledge_guidelines", NoKB, HardcodedGuidelines, FALSE, <<"default">>)

\* SupabaseService.fetch_knowledge_base
fetch_knowledge_base ==
    IF ~supabase_client
    THEN Loaded("fetch_knowledge_base", NoKB, None, FALSE, <<>>)
    ELSE IF remote_fault \/ remote_facts = {}
    THEN Loaded("fetch_knowledge_base", NoKB, None, FALSE, <<"remote">>)
    ELSE Loaded("fetch_knowledge_base",
                KnowledgeBase(DefaultTitle, OrderByNumber(remote_facts)),
                None, FALSE, <<"remote">>)

\* SupabaseService.fetch_guidelines
fetch_guidelines ==
    IF ~supabase_client
    THEN Loaded("fetch_guidelines", NoKB, None, FALSE, <<>>)
    ELSE IF remote_fault
    THEN Loaded("fetch_guidelines", NoKB, None, FALSE, <<"remote">>)
    ELSE Loaded("fetch_guidelines", NoKB, remote_guidelines, FALSE, <<"remote">>)

\* GuidelinesLoader._load_local
load_local ==
    IF local_guidelines_file = None
    THEN "[Error loading local guidelines: <error>]"
    ELSE local_guidelines_file

\* GuidelinesLoader.load
GuidelinesLoader_load ==
    IF guidelines_source = "local"
    THEN Loaded("GuidelinesLoader.load", NoKB, load_local, FALSE, <<"local">>)
    ELSE IF guidelines_source = "google_docs"
    THEN Loaded("GuidelinesLoader.load", NoKB,
                "[Google Docs integration not yet implemented]", FALSE, <<>>)
    ELSE \* raise ValueError(f"Unknown guidelines source: {self.source}")
         Loaded("GuidelinesLoader.load", NoKB, None, TRUE, <<>>)

NothingLoaded == Loaded("none", NoKB, None, FALSE, <<>>)

IdleLoad ==
    /\ supabase_client = FALSE
    /\ remote_fault = FALSE
    /\ remote_facts = {}
    /\ remote_guidelines = None
    /\ local_snapshot = NoKB
    /\ guidelines_source = "local"
    /\ local_guidelines_file = None
    /\ loaded = NothingLoaded

InitLoad ==
    /\ supabase_client \in BOOLEAN
    /\ remote_fault \in BOOLEAN
    /\ remote_facts \in RemoteFactSets
    /\ remote_guidelines \in {None, RemoteGuidelines}
    /\ local_snapshot \in {NoKB, LocalSnapshotKB}
    /\ guidelines_source \in {"local", "google_docs", "sheets"}
    /\ local_guidelines_file \in {None, LocalGuidelines}
    /\ loaded = NothingLoaded

LoadEnvUnchanged ==
    UNCHANGED <<supabase_client, remote_fault, remote_facts, remote_guidelines,
                local_snapshot, guidelines_source, local_guidelines_file>>

GetCurrentKnowledgeBase ==
    /\ loaded' = get_current_knowledge_base
    /\ LoadEnvUnchanged
    /\ UNCHANGED <<extraVars, codecVars, procVars, classVars, taskVars, execVars, oracleVars,
                   slackVars>>

GetKnowledgeGuidelines ==
    /\ loaded' = get_knowledge_guidelines
    /\ LoadEnvUnchanged
    /\ UNCHANGED <<extraVars, codecVars, procVars, classVars, taskVars, execVars, oracleVars,
                   slackVars>>

FetchKnowledgeBase ==
    /\ loaded' = fetch_knowledge_base
    /\ LoadEnvUnchanged
    /\ UNCHANGED <<extraVars, codecVars, procVars, classVars, taskVars, execVars, oracleVars,
                   slackVars>>

FetchGuidelines ==
    /\ loaded' = fetch_guidelines
    /\ LoadEnvUnchanged
    /\ UNCHANGED <<extraVars, codecVars, procVars, classVars, taskVars, execVars, oracleVars,
                   slackVars>>

GuidelinesLoaderLoad ==
    /\ loaded' = GuidelinesLoader_load
    /\ LoadEnvUnchanged
    /\ UNCHANGED <<extraVars, codecVars, procVars, classVars, taskVars, execVars, oracleVars,
                   slackVars>>

(***************************************************************************)
(* task_generator.py: TaskGenerator._analyze_if_task_needs_human.          *)
(***************************************************************************)
UpperCase ==
    <<"A", "B", "C", "D", "E", "F", "G", "H", "I", "J", "K", "L", "M",
      "N", "O", "P", "Q", "R", "S", "T", "U", "V", "W", "X", "Y", "Z">>

LowerCase ==
    <<"a", "b", "c", "d", "e", "f", "g", "h", "i", "j", "k", "l", "m",
      "n", "o", "p", "q", "r", "s", "t", "u", "v", "w", "x", "y", "z">>

\* c.lower() for one character
LowerChar(c) ==
    IF \E i \in 1..26 : UpperCase[i] = c
    THEN LowerCase[CHOOSE i \in 1..26 : UpperCase[i] = c]
    ELSE c

\* s.lower()
Lower(s) == [i \in 1..Len(s) |-> LowerChar(s[i])]

human_needed_keywords ==
    <<<<"c", "l", "a", "r", "i", "f", "y">>,
      <<"c", "o", "n", "f", "i", "r", "m">>,
      <<"v", "e", "r", "i", "f", "y", " ", "w", "i", "t", "h">>,
      <<"a", "s", "k">>,
      <<"c", "h", "e", "c", "k", " ", "w", "i", "t", "h">>,
      <<"r", "e", "v", "i", "e", "w", " ", "w", "i", "t", "h">>,
      <<"v", "a", "l", "i", "d", "a", "t", "e", " ", "w", "i", "t", "h">>,
      <<"c", "o", "o", "r", "d", "i", "n", "a", "t", "e", " ", "w", "i", "t", "h">>,
      <<"d", "e", "c", "i", "s", "i", "o", "n">>,
      <<"a", "p", "p", "r", "o", "v", "e">>,
      <<"p", "r", "i", "o", "r", "i", "t", "y">>,
      <<"s", "t", "a", "k", "e", "h", "o", "l", "d", "e", "r">>,
      <<"e", "x", "t", "e", "r", "n", "a", "l">>,
      <<"c", "o", "n", "t", "a", "c", "t">>,
      <<"r", "e", "a", "c", "h", " ", "o", "u", "t">>,
      <<"i", "n", "t", "e", "r", "v", "i", "e", "w">>,
      <<"s", "u", "r", "v", "e", "y">>,
      <<"g", "a", "t", "h", "e", "r", " ", "f", "e", "e", "d", "b", "a", "c", "k">>,
      <<"m", "e", "e", "t", "i", "n", "g">>,
      <<"d", "i", "s", "c", "u", "s", "s", "i", "o", "n">>,
      <<"s", "t", "r", "a", "t", "e", "g", "i", "c">>,
      <<"b", "u", "s", "i", "n", "e", "s", "s", " ", "j", "u", "d", "g", "m", "e", "n", "t">>,
      <<"p", "o", "l", "i", "c", "y">>,
      <<"m", "a", "n", "u", "a", "l", " ", "r", "e", "v", "i", "e", "w">>,
      <<"h", "u", "m", "a", "n", " ", "v", "e", "r", "i", "f", "i", "c", "a", "t", "i", "o", "n">>>>

automated_keywords ==
    <<<<"u", "p", "d", "a", "t", "e">>,
      <<"m", "e", "r", "g", "e">>,
      <<"c", "o", "n", "s", "o", "l", "i", "d", "a", "t", "e">>,
      <<"a", "u", "d", "i", "t">>,
      <<"s", "c", "a", "n">>,
      <<"r", "e", "f", "r", "e", "s", "h">>,
      <<"r", "e", "v", "i", "s", "e">>,
      <<"a", "r", "c", "h", "i", "v", "e">>,
      <<"v", "a", "l", "i", "d", "a", "t", "e", " ", "d", "a", "t", "e", "s">>,
      <<"c", "h", "e", "c", "k", " ", "e", "x", "i", "s", "t", "i", "n", "g">>,
      <<"r", "e", "v", "i", "e", "w", " ", "f", "a", "c", "t", "s">>,
      <<"u", "p", "d", "a", "t", "e", " ", "v", "a", "l", "i", "d", "a", "t", "i", "o", "n">>,
      <<"r", "e", "m", "o", "v", "e", " ", "d", "u", "p", "l", "i", "c", "a", "t", "e">>,
      <<"f", "i", "x">>,
      <<"c", "o", "r", "r", "e", "c", "t">>,
      <<"s", "t", "a", "n", "d", "a", "r", "d", "i", "z", "e">>>>

\* the list of the inner any(...)
indicators ==
    <<<<"f", "a", "c", "t", "s">>,
      <<"k", "n", "o", "w", "l", "e", "d", "g", "e", " ", "b", "a", "s", "e">>,
      <<"v", "a", "l", "i", "d", "a", "t", "i", "o", "n">>,
      <<"d", "a", "t", "a">>>>

\* any(keyword in text for keyword in keywords), scanning the list in order
RECURSIVE AnyIn(_, _)
AnyIn(keywords, text) ==
    IF keywords = <<>> THEN FALSE
    ELSE IF Contains(text, Head(keywords)) THEN TRUE
    ELSE AnyIn(Tail(keywords), text)

\* the two loops in the other order: the automated keywords are tried first
analyze_automated_first(t) ==
    LET task_lower == Lower(t) IN
    IF AnyIn(automated_keywords, task_lower) /\ AnyIn(indicators, task_lower)
    THEN FALSE
    ELSE TRUE

\* the second loop without the test for facts/knowledge base/validation/data
analyze_without_indicator(t) ==
    LET task_lower == Lower(t) IN
    IF AnyIn(human_needed_keywords, task_lower) THEN TRUE
    ELSE IF AnyIn(automated_keywords, task_lower) THEN FALSE
    ELSE TRUE

\* text with a blank put before and after it
Padded(s) == <<" ">> \o s \o <<" ">>

\* the first loop matching whole words only
analyze_whole_words(t) ==
    LET task_lower == Lower(t)
        whole(k) == Contains(Padded(task_lower), Padded(k)) IN
    IF \E k \in SeqRange(human_needed_keywords) : whole(k) THEN TRUE
    ELSE IF AnyIn(automated_keywords, task_lower) /\ AnyIn(indicators, task_lower)
    THEN FALSE
    ELSE TRUE

\* _analyze_if_task_needs_human: TRUE = needs a human
analyze_if_task_needs_human(t) ==
    LET task_lower == Lower(t) IN
    IF AnyIn(human_needed_keywords, task_lower) THEN TRUE
    ELSE IF AnyIn(automated_keywords, task_lower) /\ AnyIn(indicators, task_lower)
    THEN FALSE
    ELSE TRUE

\* words task texts are made of
WordInputs ==
    {<<"C", "o", "n", "f", "i", "r", "m">>,
     <<"U", "p", "d", "a", "t", "e">>,
     <<"v", "a", "l", "i", "d", "a", "t", "i", "o", "n">>,
     <<"f", "a", "c", "t", "s">>,
     <<"t", "a", "s", "k">>,
     <<"R", "e", "o", "r", "g", "a", "n", "i", "z", "e">>,
     <<"m", "e", "r", "g", "e">>}

\* the words joined by single blanks
TaskText(ws) == Join(ws, <<" ">>)

TaskInputs == {TaskText(ws) : ws \in BoundedSeq(WordInputs, MaxWords)}

IdleClassify ==
    /\ task = <<>>
    /\ needs_human = TRUE
    /\ kpc = "idle"

InitClassify ==
    /\ task \in TaskInputs
    /\ needs_human = TRUE
    /\ kpc = "task"

AnalyzeIfTaskNeedsHuman ==
    /\ kpc = "task"
    /\ needs_human' = analyze_if_task_needs_human(task)
    /\ kpc' = "classified"
    /\ UNCHANGED task
    /\ UNCHANGED <<extraVars, codecVars, procVars, loadVars, taskVars, execVars, oracleVars,
                   slackVars>>

(***************************************************************************)
(* task_manager.py, supabase_service.py: the status calls on the task      *)
(* store.                                                                  *)
(***************************************************************************)
\* ids of the stored tasks; MaxTasks + 1 is an id no task has
TaskIds == 1..MaxTasks

CallIds == 1..(MaxTasks + 1)

Statuses == {"pending", "in_progress", "completed", "cancelled"}

Call(op, task_id, returned, raised) ==
    [op |-> op, task_id |-> task_id, returned |-> returned, raised |-> raised]

\* the rows after .update({"status": status}).eq("id", task_id).execute()
UpdatedRows(store, task_id, status) ==
    [i \in DOMAIN store |-> IF i = task_id THEN status ELSE store[i]]

\* SupabaseService.update_task_status(task_id, status); fault: execute() raises.
\* Gives the returned boolean and the store after the call.
update_task_status(store, task_id, status, fault) ==
    IF ~supabase_client THEN [returned |-> FALSE, store |-> store]
    ELSE IF fault THEN [returned |-> FALSE, store |-> store]
    ELSE [returned |-> TRUE, store |-> UpdatedRows(store, task_id, status)]

IdleTasks ==
    /\ tasks = <<>>
    /\ last_call = Call("none", 0, FALSE, FALSE)

InitTasks ==
    /\ tasks = [i \in TaskIds |-> "pending"]
    /\ last_call = Call("none", 0, FALSE, FALSE)

\* SupabaseService.update_task_status called with two arguments
UpdateTaskStatus ==
    \E id \in CallIds, status \in Statuses, fault \in BOOLEAN :
        LET r == update_task_status(tasks, id, status, fault) IN
        /\ tasks' = r.store
        /\ last_call' = Call("update_task_status", id, r.returned, FALSE)
        /\ UNCHANGED <<extraVars, codecVars, procVars, loadVars, classVars, execVars, oracleVars,
                       slackVars>>

\* TaskManager.mark_task_in_progress
MarkTaskInProgress ==
    \E id \in CallIds, fault \in BOOLEAN :
        LET r == update_task_status(tasks, id, "in_progress", fault) IN
        /\ tasks' = r.store
        /\ last_call' = Call("mark_task_in_progress", id, r.returned, FALSE)
        /\ UNCHANGED <<extraVars, codecVars, procVars, loadVars, classVars, execVars, oracleVars,
                       slackVars>>

\* TaskManager.mark_task_completed: update_task_status(task_id, "completed",
\* completion_notes) passes three arguments to a method that takes two, so the
\* call raises TypeError before the store is touched
MarkTaskCompleted ==
    \E id \in CallIds :
        /\ last_call' = Call("mark_task_completed", id, FALSE, TRUE)
        /\ UNCHANGED tasks
        /\ UNCHANGED <<extraVars, codecVars, procVars, loadVars, classVars, execVars, oracleVars,
                       slackVars>>

\* TaskManager.cancel_task: update_task_status(task_id, "cancelled", reason),
\* again three arguments: TypeError
CancelTask ==
    \E id \in CallIds :
        /\ last_call' = Call("cancel_task", id, FALSE, TRUE)
        /\ UNCHANGED tasks
        /\ UNCHANGED <<extraVars, codecVars, procVars, loadVars, classVars, execVars, oracleVars,
                       slackVars>>

(***************************************************************************)
(* task_executor.py: TaskExecutor.execute_automated_tasks, one task at a   *)
(* time, over the task store and the facts table of SupabaseService.       *)
(***************************************************************************)
\* rows of the batch that are written: for a number the batch repeats, the
\* last row
LastRows(rows) ==
    {rows[i] : i \in {j \in 1..Len(rows) :
                        \A k \in (j + 1)..Len(rows) : rows[k].number # rows[j].number}}

\* a write that keeps the stored row when the number is taken already
UpsertRows_keep_stored(store, rows) ==
    store \cup {f \in LastRows(rows) : \A g \in store : g.number # f.number}

\* a write that leaves the table holding the written rows only
UpsertRows_replace(store, rows) == LastRows(rows)

\* the facts table after .upsert(rows).execute(): rows replace the stored rows
\* of the same number, the other stored rows stay
UpsertRows(store, rows) ==
    {f \in store : \A i \in 1..Len(rows) : rows[i].number # f.number}
    \cup LastRows(rows)

\* SupabaseService.upsert_knowledge_base(kb); fault: execute() raises.
\* Gives the returned boolean and the facts table after the call.
upsert_knowledge_base(store, kb, fault) ==
    IF ~supabase_client \/ kb = NoKB THEN [returned |-> FALSE, store |-> store]
    ELSE IF fault THEN [returned |-> FALSE, store |-> store]
    ELSE [returned |-> TRUE, store |-> UpsertRows(store, kb.facts)]

\* the ids of a set of tasks, lowest first
RECURSIVE OrderIds(_)
OrderIds(ids) ==
    IF ids = {} THEN <<>>
    ELSE LET first == CHOOSE i \in ids : \A j \in ids : i <= j
         IN  <<first>> \o OrderIds(ids \ {first})

\* fetch_automated_tasks(): the stored pending tasks that need no human, oldest
\* first; no rows without a client; fault: the call raises
fetch_automated_tasks(store, automated, fault) ==
    IF fault THEN [raised |-> TRUE, rows |-> <<>>]
    ELSE IF ~supabase_client THEN [raised |-> FALSE, rows |-> <<>>]
    ELSE [raised |-> FALSE,
          rows |-> OrderIds({i \in DOMAIN store :
                                store[i] = "pending" /\ i \in automated})]

\* delete_task(task_id): the row is removed and TRUE returned; on failure the
\* row stays and FALSE is returned, or the call raises
delete_task(store, task_id, outcome) ==
    IF outcome = "ok" /\ supabase_client
    THEN [returned |-> TRUE, raised |-> FALSE,
          store |-> [i \in (DOMAIN store) \ {task_id} |-> store[i]]]
    ELSE [returned |-> FALSE, raised |-> (outcome = "raise"), store |-> store]

DeleteOutcomes == {"ok", "fail", "raise"}

ExecRow(f) == [wf |-> TRUE, fact |-> f, line |-> to_table_row(f)]

\* what chat.completions.create gives for one task: a transport error, a
\* message without content, or a reply text
ExecOracleOutcomes ==
    {[kind |-> "raise", rows |-> <<>>, content |-> <<>>],
     [kind |-> "no_content", rows |-> <<>>, content |-> <<>>],
     [kind |-> "reply", rows |-> <<>>,
      content |-> <<"N", "o", " ", "c", "h", "a", "n", "g", "e", "s", ".">>]}
    \cup
    {[kind |-> "reply", rows |-> r, content |-> ReplyText(TRUE, r)] :
        r \in {<<ExecRow(Fact(1, <<"a">>, ReplyDate))>>,
               <<ExecRow(Fact(1, <<"b">>, ReplyDate)),
                 ExecRow(Fact(12, <<"a">>, ReplyDate))>>}}

NoReply == [kind |-> "none", rows |-> <<>>, content |-> <<>>]

\* where the loop goes after task i of n: the next task, or the return
NextTaskPc(i, n) == IF i + 1 > n THEN "return" ELSE "load"

\* lines 85-107: what follows the fetch and the guidelines load
after_fetch(fetched, guidelines) ==
    IF fetched.raised THEN "failed"
    ELSE IF fetched.rows = <<>> THEN "nothing"
    ELSE IF guidelines = "" THEN "no_guidelines"
    ELSE "load"

\* lines 133-162 with the transport error answered by another call
after_oracle_retry(o) ==
    IF o.kind = "raise" THEN "oracle"
    ELSE IF o.kind = "no_content" THEN "continue"
    ELSE "parse"

\* lines 133-162, 186-189: an exception of the call (or of the parser on a
\* message without content) goes to the except clause, which continues
after_oracle(o) ==
    IF o.kind \in {"raise", "no_content"} THEN "continue" ELSE "parse"

\* line 167 without the test on the parsed facts
after_parse_unchecked(kb) == "upsert"

\* lines 167-169: if not updated_knowledge_base or not ...facts: continue
after_parse(kb) ==
    IF kb = NoKB \/ kb.facts = <<>> THEN "continue" ELSE "upsert"

\* line 174 without the test on update_success
after_upsert_unchecked(update_success) == "delete"

\* lines 174-176: if not update_success: continue
after_upsert(update_success) ==
    IF ~update_success THEN "continue" ELSE "delete"

\* the dictionary execute_automated_tasks returns; keys: the keys it holds
\* besides success, tasks_executed and tasks_completed
ExecResult(success, keys, tasks_completed, kb_updated, executed) ==
    [success |-> success, keys |-> keys, tasks_executed |-> tasks_completed,
     tasks_completed |-> tasks_completed, knowledge_base_updated |-> kb_updated,
     executed_tasks |-> executed]

NoResult == ExecResult(FALSE, {}, 0, FALSE, <<>>)

(***************************************************************************)
(* The oracle requests of the three call sites (chatgpt_service.py,        *)
(* task_executor.py, task_generator.py), and update_knowledge_base step by *)
(* step.                                                                   *)
(***************************************************************************)
\* values of ChatGPTService.model: the one __init__ sets, and two names of
\* the families the prefix tests name
ModelNames ==
    {<<"g", "p", "t", "-", "4", "o">>,
     <<"o", "1", "-", "m", "i", "n", "i">>,
     <<"o", "3", "-", "m", "i", "n", "i">>}

\* self.model as ChatGPTService.__init__ sets it
DefaultModel == <<"g", "p", "t", "-", "4", "o">>

Sites == {"update_knowledge_base", "execute_automated_tasks", "generate_tasks"}

\* the arguments of chat.completions.create: the roles of the messages, the
\* temperature (None when not passed), the name and value of the token limit
Request(roles, temperature, limit_key, limit) ==
    [roles |-> roles, temperature |-> temperature, limit_key |-> limit_key,
     limit |-> limit]

NoRequest == Request(<<>>, None, None, 0)

\* chatgpt_service.py lines 145-162
request_update_knowledge_base(model) ==
    IF StartsWith(model, <<"o", "1">>)
    THEN Request(<<"user">>, None, "max_completion_tokens", 4000)
    ELSE Request(<<"system", "user">>, "0.1", "max_tokens", 4000)

\* task_executor.py lines 134-151
request_execute_automated_tasks(model) ==
    IF StartsWith(model, <<"o", "1">>) \/ StartsWith(model, <<"o", "3">>)
    THEN Request(<<"user">>, None, "max_completion_tokens", 4000)
    ELSE Request(<<"system", "user">>, "0.1", "max_tokens", 4000)

\* task_generator.py lines 190-207
request_generate_tasks(model) ==
    IF StartsWith(model, <<"o", "1">>) \/ StartsWith(model, <<"o", "3">>)
    THEN Request(<<"user">>, None, "max_completion_tokens", 2000)
    ELSE Request(<<"system", "user">>, "0.1", "max_tokens", 2000)

\* chatgpt_service.py lines 146-162, 182: an exception of create() goes to the
\* except clause
after_create(o) ==
    IF o.kind = "raise" THEN "except" ELSE "parse"

\* the entries of the JSON list of a task generation reply: strings (is_str)
\* and other values
TaskItems ==
    {[is_str |-> TRUE, text |-> <<"U", "p", "d", "a", "t", "e", " ", "f", "a", "c", "t", "s">>],
     [is_str |-> TRUE, text |-> <<" ">>],
     [is_str |-> FALSE, text |-> <<>>]}

\* what the oracle gives to generate_tasks: a transport error, a text that is
\* no JSON, a JSON value that is no list, or a JSON list
GenerateOutcomes ==
    {[kind |-> k, items |-> <<>>] : k \in {"raise", "not_json", "not_list"}}
    \cup {[kind |-> "list", items |-> q] : q \in BoundedSeq(TaskItems, 2)}

\* _parse_task_response after json.loads: the stripped non-empty strings
RECURSIVE valid_tasks(_)
valid_tasks(items) ==
    IF items = <<>> THEN <<>>
    ELSE IF Head(items).is_str /\ Strip(Head(items).text) # <<>>
    THEN <<Strip(Head(items).text)>> \o valid_tasks(Tail(items))
    ELSE valid_tasks(Tail(items))

parse_task_response(o) ==
    IF o.kind = "list" THEN valid_tasks(o.items) ELSE <<>>

\* the read of the stored tasks generate_tasks starts with; fault: it raises
fetch_tasks(store, fault) ==
    IF fault THEN [raised |-> TRUE, rows |-> <<>>]
    ELSE IF ~supabase_client THEN [raised |-> FALSE, rows |-> <<>>]
    ELSE [raised |-> FALSE, rows |-> OrderIds(DOMAIN store)]

Generated(called, requested, is_none, task_list) ==
    [called |-> called, requested |-> requested, is_none |-> is_none,
     tasks |-> task_list]

\* TaskGenerator.generate_tasks: None when anything raises, else the tasks
generate_tasks(store, fault, o) ==
    IF fetch_tasks(store, fault).raised THEN Generated(TRUE, FALSE, TRUE, <<>>)
    ELSE IF o.kind = "raise" THEN Generated(TRUE, TRUE, TRUE, <<>>)
    ELSE Generated(TRUE, TRUE, FALSE, parse_task_response(o))

(***************************************************************************)
(* execute_automated_tasks: state and actions.                             *)
(***************************************************************************)
\* the history of task id with one more event
WithEvent(id, event) == [events EXCEPT ![id] = @ \cup {event}]

\* continue: on to the next task of the run
Continue ==
    /\ idx' = idx + 1
    /\ epc' = NextTaskPc(idx, Len(run_tasks))

\* a step of the loop body that goes where pc says
GoTo(pc) ==
    IF pc = "continue" THEN Continue ELSE (idx' = idx /\ epc' = pc)

IdleExec ==
    /\ automated_ids = {}
    /\ run_tasks = <<>>
    /\ idx = 0
    /\ epc = "idle"
    /\ sent_kb = NoKB
    /\ exec_reply = NoReply
    /\ exec_updated = NoKB
    /\ completed_count = 0
    /\ executed_tasks = <<>>
    /\ oracle_calls = 0
    /\ exec_result = NoResult
    /\ events = <<>>
    /\ last_committed = NoKB

InitExec ==
    /\ automated_ids \in SUBSET TaskIds
    /\ run_tasks = <<>>
    /\ idx = 0
    /\ epc = "ready"
    /\ sent_kb = NoKB
    /\ exec_reply = NoReply
    /\ exec_updated = NoKB
    /\ completed_count = 0
    /\ executed_tasks = <<>>
    /\ oracle_calls = 0
    /\ exec_result = NoResult
    /\ events = <<>>
    /\ last_committed = NoKB

\* execute_automated_tasks is called (lines 81-111): fetch the tasks, load the
\* guidelines, return at once when there is nothing to do
ExecStart ==
    /\ epc \in {"ready", "done", "crashed"}
    /\ \E fault \in BOOLEAN :
          LET fetched == fetch_automated_tasks(tasks, automated_ids, fault)
              pc      == after_fetch(fetched, get_knowledge_guidelines.text)
          IN  /\ run_tasks' = IF pc = "load" THEN fetched.rows ELSE <<>>
              /\ idx' = IF pc = "load" THEN 1 ELSE 0
              /\ epc' = IF pc = "load" THEN "load" ELSE "done"
              /\ exec_result' =
                    CASE pc = "load" -> NoResult
                      [] pc = "nothing" ->
                            ExecResult(TRUE, {"message", "knowledge_base_updated"},
                                       0, FALSE, <<>>)
                      [] OTHER -> ExecResult(FALSE, {"error"}, 0, FALSE, <<>>)
    /\ events' = [id \in SeqRange(run_tasks') |-> {}]
    /\ completed_count' = 0
    /\ executed_tasks' = <<>>
    /\ oracle_calls' = 0
    /\ sent_kb' = NoKB
    /\ exec_reply' = NoReply
    /\ exec_updated' = NoKB
    /\ last_committed' = NoKB
    /\ UNCHANGED <<extraVars, automated_ids, codecVars, procVars, loadVars, classVars,
                   taskVars, oracleVars, slackVars>>

\* lines 114-131: the knowledge base for this task, and the prompt
ExecLoad ==
    /\ epc = "load"
    /\ sent_kb' = get_current_knowledge_base.kb
    /\ exec_reply' = NoReply
    /\ exec_updated' = NoKB
    /\ oracle_calls' = 0
    /\ epc' = "oracle"
    /\ UNCHANGED <<automated_ids, run_tasks, idx, completed_count,
                   executed_tasks, exec_result, events, last_committed>>
    /\ UNCHANGED <<extraVars, codecVars, procVars, loadVars, classVars, taskVars,
                   oracleVars, slackVars>>

\* lines 133-162: the oracle call for this task
ExecOracle ==
    /\ epc = "oracle"
    /\ \E o \in ExecOracleOutcomes :
          LET pc == after_oracle(o) IN
          /\ exec_reply' = IF o.kind = "reply" THEN o ELSE NoReply
          /\ events' = IF o.kind \in {"raise", "no_content"}
                       THEN WithEvent(run_tasks[idx], "oracle_failed")
                       ELSE events
          /\ GoTo(pc)
    /\ oracle_calls' = oracle_calls + 1
    /\ requests' = [requests EXCEPT !["execute_automated_tasks"] =
                       request_execute_automated_tasks(model_name)]
    /\ UNCHANGED <<automated_ids, run_tasks, sent_kb, exec_updated,
                   completed_count, executed_tasks, exec_result, last_committed>>
    /\ UNCHANGED <<model_name, upc, ucalls, ukb_reply, ukb_result, generated>>
    /\ UNCHANGED <<extraVars, codecVars, procVars, loadVars, classVars, taskVars, slackVars>>

\* lines 164-169: parse the reply, skip the task when no fact was parsed
ExecParse ==
    /\ epc = "parse"
    /\ LET r  == parse_knowledge_base_response(exec_reply.content)
           kb == KnowledgeBase(r.title, r.facts)
       IN  /\ exec_updated' = kb
           /\ events' = IF kb.facts = <<>>
                        THEN WithEvent(run_tasks[idx], "zero_facts")
                        ELSE events
           /\ GoTo(after_parse(kb))
    /\ UNCHANGED <<automated_ids, run_tasks, sent_kb, exec_reply,
                   completed_count, executed_tasks, oracle_calls, exec_result,
                   last_committed>>
    /\ UNCHANGED <<extraVars, codecVars, procVars, loadVars, classVars, taskVars,
                   oracleVars, slackVars>>

\* lines 171-176: write the parsed knowledge base to the facts table
ExecUpsert ==
    /\ epc = "upsert"
    /\ \E fault \in BOOLEAN :
          LET w == upsert_knowledge_base(remote_facts, exec_updated, fault) IN
          /\ remote_facts' = w.store
          /\ events' = WithEvent(run_tasks[idx],
                                 IF w.returned THEN "written" ELSE "write_failed")
          /\ last_committed' = IF w.returned THEN exec_updated ELSE last_committed
          /\ GoTo(after_upsert(w.returned))
    /\ UNCHANGED <<automated_ids, run_tasks, sent_kb, exec_reply, exec_updated,
                   completed_count, executed_tasks, oracle_calls, exec_result>>
    /\ UNCHANGED <<supabase_client, remote_fault, remote_guidelines,
                   local_snapshot, guidelines_source, local_guidelines_file,
                   loaded>>
    /\ UNCHANGED <<extraVars, codecVars, procVars, classVars, taskVars, oracleVars,
                   slackVars>>

\* lines 178-189: delete the task, count it when the delete succeeded
ExecDelete ==
    /\ epc = "delete"
    /\ \E outcome \in DeleteOutcomes :
          LET d == delete_task(tasks, run_tasks[idx], outcome) IN
          /\ tasks' = d.store
          /\ completed_count' = IF d.returned THEN completed_count + 1
                                ELSE completed_count
          /\ executed_tasks' = IF d.returned
                               THEN Append(executed_tasks, run_tasks[idx])
                               ELSE executed_tasks
          /\ events' = WithEvent(run_tasks[idx],
                                 IF d.returned THEN "deleted" ELSE "delete_failed")
    /\ Continue
    /\ UNCHANGED <<automated_ids, run_tasks, sent_kb, exec_reply, exec_updated,
                   oracle_calls, exec_result, last_committed>>
    /\ UNCHANGED last_call
    /\ UNCHANGED <<extraVars, codecVars, procVars, loadVars, classVars, oracleVars,
                   slackVars>>

\* the process ends between the write and the delete
ExecCrash ==
    /\ epc = "delete"
    /\ epc' = "crashed"
    /\ events' = WithEvent(run_tasks[idx], "crashed")
    /\ UNCHANGED <<automated_ids, run_tasks, idx, sent_kb, exec_reply,
                   exec_updated, completed_count, executed_tasks, oracle_calls,
                   exec_result, last_committed>>
    /\ UNCHANGED <<extraVars, codecVars, procVars, loadVars, classVars, taskVars,
                   oracleVars, slackVars>>

\* lines 191-200: the summary of the run
ExecReturn ==
    /\ epc = "return"
    /\ exec_result' =
          ExecResult(TRUE, {"message", "knowledge_base_updated", "executed_tasks"},
                     completed_count, completed_count > 0, executed_tasks)
    /\ epc' = "done"
    /\ UNCHANGED <<automated_ids, run_tasks, idx, sent_kb, exec_reply,
                   exec_updated, completed_count, executed_tasks, oracle_calls,
                   events, last_committed>>
    /\ UNCHANGED <<extraVars, codecVars, procVars, loadVars, classVars, taskVars,
                   oracleVars, slackVars>>

(***************************************************************************)
(* The oracle call sites: state and actions.                               *)
(***************************************************************************)
IdleOracle ==
    /\ model_name = DefaultModel
    /\ requests = [s \in Sites |-> NoRequest]
    /\ upc = "idle"
    /\ ucalls = 0
    /\ ukb_reply = NoReply
    /\ ukb_result = NoKB
    /\ generated = Generated(FALSE, FALSE, FALSE, <<>>)

InitOracle ==
    /\ model_name \in ModelNames
    /\ requests = [s \in Sites |-> NoRequest]
    /\ upc = "start"
    /\ ucalls = 0
    /\ ukb_reply = NoReply
    /\ ukb_result = NoKB
    /\ generated = Generated(FALSE, FALSE, FALSE, <<>>)

\* update_knowledge_base, lines 134-162: the prompt and the oracle call
UkbCreate ==
    /\ upc = "start"
    /\ \E o \in ExecOracleOutcomes :
          /\ ukb_reply' = o
          /\ upc' = after_create(o)
    /\ ucalls' = ucalls + 1
    /\ requests' = [requests EXCEPT !["update_knowledge_base"] =
                       request_update_knowledge_base(model_name)]
    /\ UNCHANGED <<model_name, ukb_result, generated>>
    /\ UNCHANGED <<extraVars, codecVars, procVars, loadVars, classVars, taskVars, execVars,
                   slackVars>>

\* update_knowledge_base, lines 164-180 (and 182-187 when the content is None)
UkbParse ==
    /\ upc = "parse"
    /\ ukb_result' = update_knowledge_base(NoKB, ukb_reply)
    /\ upc' = "returned"
    /\ UNCHANGED <<model_name, requests, ucalls, ukb_reply, generated>>
    /\ UNCHANGED <<extraVars, codecVars, procVars, loadVars, classVars, taskVars, execVars,
                   slackVars>>

\* update_knowledge_base, lines 182-187: log the error, return None
UkbExcept ==
    /\ upc = "except"
    /\ ukb_result' = NoKB
    /\ upc' = "returned"
    /\ UNCHANGED <<model_name, requests, ucalls, ukb_reply, generated>>
    /\ UNCHANGED <<extraVars, codecVars, procVars, loadVars, classVars, taskVars, execVars,
                   slackVars>>

\* TaskGenerator.generate_tasks
GenerateTasks ==
    /\ ~generated.called
    /\ \E fault \in BOOLEAN, o \in GenerateOutcomes :
          /\ generated' = generate_tasks(tasks, fault, o)
          /\ requests' = IF generated'.requested
                         THEN [requests EXCEPT !["generate_tasks"] =
                                  request_generate_tasks(model_name)]
                         ELSE requests
    /\ UNCHANGED <<model_name, upc, ucalls, ukb_reply, ukb_result>>
    /\ UNCHANGED <<extraVars, codecVars, procVars, loadVars, classVars, taskVars, execVars,
                   slackVars>>

(***************************************************************************)
(* api/slack.py: handler.do_POST.                                          *)
(***************************************************************************)
\* request bodies: no body, text that is no JSON, an empty JSON array, an
\* object without text, an object with the message text
SlackPayloads == {"empty_body", "invalid_json", "empty_array", "no_text", "message"}

HttpResponse(status, success, kb, error_message) ==
    [status |-> status, success |-> success, updated_knowledge_base |-> kb,
     error_message |-> error_message]

NoResponse == HttpResponse(0, FALSE, NoKB, None)

\* replies of at most one row
SlackOracleOutcomes == {o \in OracleOutcomes : Len(o.rows) <= 1}

\* the 400 answers of lines 34-58
slack_error(payload) ==
    CASE payload = "empty_body" -> "Empty request body"
      [] payload = "invalid_json" -> "Invalid JSON payload"
      [] payload = "empty_array" -> "Empty JSON array received"
      [] payload = "no_text" -> "Missing Slack message text in payload"

\* lines 82-96: the answer built from the ProcessingResponse
slack_response(r) ==
    HttpResponse(IF r.success THEN 200 ELSE 500, r.success,
                 r.updated_knowledge_base, r.error_message)

IdleSlack == http_response = NoResponse

\* handler.do_POST
SlackDoPost ==
    /\ \E payload \in SlackPayloads :
          IF payload # "message"
          THEN /\ http_response' = HttpResponse(400, FALSE, NoKB, slack_error(payload))
               /\ UNCHANGED procVars
          ELSE \E o \in SlackOracleOutcomes, fault \in BOOLEAN :
                  /\ request_kb' = get_current_knowledge_base.kb
                  /\ oracle' = o
                  /\ step_fault' = fault
                  /\ result' = process_custom_input(request_kb', o, fault)
                  /\ ppc' = "returned"
                  /\ http_response' = slack_response(result')
    /\ UNCHANGED <<extraVars, codecVars, loadVars, classVars, taskVars, execVars,
                   oracleVars>>

(***************************************************************************)
(* task_manager.py, supabase_service.py: the listings of pending tasks.    *)
(* tasks holds the status of each stored task; automated_ids holds the ids *)
(* stored with the requires-human flag off.                                *)
(***************************************************************************)
\* a row of .select("id, title, status, created_at"); title and created_at go
\* with the id
TaskRow(store, id) == [id |-> id, title |-> id, status |-> store[id], created_at |-> id]

\* SupabaseService.fetch_knowledge_management_tasks(status); status None: no
\* filter; fault: execute() raises
fetch_knowledge_management_tasks(store, status, fault) ==
    IF ~supabase_client THEN <<>>
    ELSE IF fault THEN <<>>
    ELSE LET ids == OrderIds({i \in DOMAIN store : status = None \/ store[i] = status})
         IN  [k \in 1..Len(ids) |-> TaskRow(store, ids[k])]

\* SupabaseService.get_pending_tasks, TaskManager.get_pending_tasks
get_pending_tasks(store, fault) ==
    fetch_knowledge_management_tasks(store, "pending", fault)

\* dict.get(key, default)
DictGet(row, key, default) == IF key \in DOMAIN row THEN row[key] ELSE default

RequiresHuman(row) == DictGet(row, "requires_human_input", FALSE)

\* TaskManager.get_automated_tasks
get_automated_tasks(store, fault) ==
    SelectSeq(get_pending_tasks(store, fault), LAMBDA t : ~RequiresHuman(t))

\* TaskManager.get_human_tasks
get_human_tasks(store, fault) ==
    SelectSeq(get_pending_tasks(store, fault), LAMBDA t : RequiresHuman(t))

\* SupabaseService.add_task(task, needs_human): a pending row with the flag
add_task(store, automated, flag) ==
    LET id == Cardinality(DOMAIN store) + 1 IN
    IF ~supabase_client THEN [returned |-> FALSE, store |-> store, automated |-> automated]
    ELSE [returned |-> TRUE,
          store |-> [i \in (DOMAIN store) \cup {id} |-> IF i = id THEN "pending" ELSE store[i]],
          automated |-> IF flag THEN automated ELSE automated \cup {id}]

\* what a listing call returned, with the store it was served from
Listing(called, rows, store, automated, served) ==
    [called |-> called, ids |-> [k \in 1..Len(rows) |-> rows[k].id],
     store |-> store, automated |-> automated, served |-> served]

NoListing == Listing(FALSE, <<>>, <<>>, {}, FALSE)

IdleManager ==
    /\ automated_listing = NoListing
    /\ human_listing = NoListing

\* no executor run
IdleExecRun ==
    /\ run_tasks = <<>> /\ idx = 0 /\ epc = "idle"
    /\ sent_kb = NoKB /\ exec_reply = NoReply /\ exec_updated = NoKB
    /\ completed_count = 0 /\ executed_tasks = <<>> /\ oracle_calls = 0
    /\ exec_result = NoResult /\ events = <<>> /\ last_committed = NoKB

\* stores of fewer than MaxTasks tasks, of any status and flag
InitManagerStore ==
    /\ \E n \in 0..(MaxTasks - 1) : tasks \in [1..n -> Statuses]
    /\ last_call = Call("none", 0, FALSE, FALSE)
    /\ automated_ids \in SUBSET (DOMAIN tasks)

\* generate_and_store_tasks, lines 263-265: store one task with its flag
AddTask ==
    /\ Cardinality(DOMAIN tasks) < MaxTasks
    /\ \E needs \in BOOLEAN :
          LET r == add_task(tasks, automated_ids, needs) IN
          /\ tasks' = r.store
          /\ automated_ids' = r.automated
    /\ UNCHANGED <<last_call, managerVars, healthVars, scriptVars, raceVars>>
    /\ UNCHANGED <<run_tasks, idx, epc, sent_kb, exec_reply, exec_updated,
                   completed_count, executed_tasks, oracle_calls, exec_result,
                   events, last_committed>>
    /\ UNCHANGED <<codecVars, procVars, loadVars, classVars, oracleVars, slackVars>>

GetAutomatedTasks ==
    /\ \E fault \in BOOLEAN :
          automated_listing' =
              Listing(TRUE, get_automated_tasks(tasks, fault), tasks, automated_ids,
                      supabase_client /\ ~fault)
    /\ UNCHANGED <<human_listing, healthVars, scriptVars, raceVars>>
    /\ UNCHANGED <<codecVars, procVars, loadVars, classVars, taskVars, execVars,
                   oracleVars, slackVars>>

GetHumanTasks ==
    /\ \E fault \in BOOLEAN :
          human_listing' =
              Listing(TRUE, get_human_tasks(tasks, fault), tasks, automated_ids,
                      supabase_client /\ ~fault)
    /\ UNCHANGED <<automated_listing, healthVars, scriptVars, raceVars>>
    /\ UNCHANGED <<codecVars, procVars, loadVars, classVars, taskVars, execVars,
                   oracleVars, slackVars>>

(***************************************************************************)
(* knowledge_processor.py, chatgpt_service.py: the health check.           *)
(***************************************************************************)
\* what the test call to the oracle gives
ConnectionOutcomes ==
    {[kind |-> "raise", content |-> <<>>],
     [kind |-> "no_content", content |-> <<>>],
     [kind |-> "reply", content |-> <<"C", "o", "n", "n", "e", "c", "t", "i", "o", "n", " ", "s", "u", "c", "c", "e", "s", "s", "f", "u", "l">>],
     [kind |-> "reply", content |-> <<"S", "U", "C", "C", "E", "S", "S", "F", "U", "L">>],
     [kind |-> "reply", content |-> <<"H", "e", "l", "l", "o", "!">>]}

\* chatgpt_service.py lines 197-208
request_test_connection(model) ==
    IF StartsWith(model, <<"o", "1">>)
    THEN Request(<<"user">>, None, "max_completion_tokens", 50)
    ELSE Request(<<"user">>, None, "max_tokens", 10)

\* ChatGPTService.test_connection: an exception of create(), or of the `in`
\* test on a missing content, goes to the except clause
test_connection(o) ==
    IF o.kind # "reply" THEN FALSE
    ELSE \/ Contains(o.content, <<"C", "o", "n", "n", "e", "c", "t", "i", "o", "n", " ", "s", "u", "c", "c", "e", "s", "s", "f", "u", "l">>)
         \/ Contains(Lower(o.content), <<"s", "u", "c", "c", "e", "s", "s", "f", "u", "l">>)

\* what one health check meets: the model name, the outcome of the test call,
\* test_connection itself raising, OPENAI_API_KEY being set, the data load
\* raising
HealthInputs ==
    [model : ModelNames, oracle : ConnectionOutcomes, raised : BOOLEAN,
     env_key : BOOLEAN, data_fault : BOOLEAN]

ComponentStatus(ok) == IF ok THEN "healthy" ELSE "unhealthy"

HealthStatus(overall, chatgpt_api, environment, hardcoded_data, request) ==
    [overall_status |-> overall,
     components |-> [chatgpt_api |-> chatgpt_api, environment |-> environment,
                     hardcoded_data |-> hardcoded_data],
     request |-> request]

NoHealth == HealthStatus("none", "none", "none", "none", NoRequest)

\* KnowledgeProcessor.test_system_health: overall_status after each of the
\* three component tests (s1, s2, s3)
test_system_health(inp) ==
    LET chatgpt_healthy == ~inp.raised /\ test_connection(inp.oracle)
        s1 == IF inp.raised THEN "degraded" ELSE "healthy"
        s2 == IF ~inp.env_key THEN "unhealthy" ELSE s1
        s3 == IF inp.data_fault THEN "degraded" ELSE s2
    IN  HealthStatus(s3, ComponentStatus(chatgpt_healthy), ComponentStatus(inp.env_key),
                     ComponentStatus(~inp.data_fault), request_test_connection(inp.model))

NoHealthInput ==
    [model |-> DefaultModel, oracle |-> [kind |-> "raise", content |-> <<>>],
     raised |-> FALSE, env_key |-> FALSE, data_fault |-> FALSE, none |-> TRUE]

IdleHealth ==
    /\ health_input = NoHealthInput
    /\ health_status = NoHealth

InitHealth ==
    /\ health_input \in HealthInputs
    /\ health_status = NoHealth

TestSystemHealth ==
    /\ health_status = NoHealth
    /\ health_status' = test_system_health(health_input)
    /\ UNCHANGED <<health_input, managerVars, scriptVars, raceVars>>
    /\ UNCHANGED <<codecVars, procVars, loadVars, classVars, taskVars, execVars,
                   oracleVars, slackVars>>

(***************************************************************************)
(* scripts/replace_facts.py: read_csv, replace_facts and the main block.   *)
(***************************************************************************)
\* header_map.get(h, h)
header_map(h) ==
    CASE h \in {"#", "number"} -> "number"
      [] h \in {"Fact", "description"} -> "description"
      [] h \in {"Time Last Validated", "last_validated"} -> "last_validated"
      [] OTHER -> h

required_cols == {"number", "description", "last_validated"}

\* the value a normalised row holds under a key: the cell of the last column
\* whose header maps to the key
RowValue(fieldnames, cells, key) ==
    cells[CHOOSE i \in 1..Len(fieldnames) :
              /\ header_map(fieldnames[i]) = key
              /\ \A j \in (i + 1)..Len(fieldnames) : header_map(fieldnames[j]) # key]

IsLeap(y) == (y % 4 = 0 /\ y % 100 # 0) \/ y % 400 = 0

DaysInMonth(y, m) ==
    IF m = 2 THEN (IF IsLeap(y) THEN 29 ELSE 28)
    ELSE IF m \in {4, 6, 9, 11} THEN 30 ELSE 31

\* the text one field of the format takes from the front of s: the first of
\* the alternatives (each a sequence of character sets) that fits; <<>> if none
FirstFit(s, alternatives) ==
    LET fits(a) == Len(a) <= Len(s) /\ \A i \in 1..Len(a) : s[i] \in a[i]
        hits    == {k \in 1..Len(alternatives) : fits(alternatives[k])}
    IN  IF hits = {} THEN <<>>
        ELSE SubSeq(s, 1, Len(alternatives[CHOOSE k \in hits : \A j \in hits : k <= j]))

MonthField ==
    <<(<<{"1"}, {"0", "1", "2"}>>), (<<{"0"}, Digits \ {"0"}>>), (<<Digits \ {"0"}>>)>>

DayField ==
    <<(<<{"3"}, {"0", "1"}>>), (<<{"1", "2"}, Digits>>), (<<{"0"}, Digits \ {"0"}>>),
      (<<Digits \ {"0"}>>), (<<{" "}, Digits \ {"0"}>>)>>

\* datetime.strptime(s, "%Y-%m-%d") returns (TRUE) or raises ValueError (FALSE):
\* four digits, "-", a month of one or two digits, "-", a day of one or two
\* digits, nothing left over, and a date of the calendar
strptime_ymd(s) ==
    LET year  == FirstFit(s, <<(<<Digits, Digits, Digits, Digits>>)>>)
        s1    == DropTo(s, 5)
        s2    == IF s1 # <<>> /\ s1[1] = "-" THEN DropTo(s1, 2) ELSE <<>>
        month == FirstFit(s2, MonthField)
        s3    == DropTo(s2, Len(month) + 1)
        s4    == IF s3 # <<>> /\ s3[1] = "-" THEN DropTo(s3, 2) ELSE <<>>
        day   == FirstFit(s4, DayField)
        rest  == DropTo(s4, Len(day) + 1)
    IN  /\ year # <<>> /\ month # <<>> /\ day # <<>>
        /\ rest = <<>>
        /\ DigitsValue(year, 0) >= 1
        /\ DigitsValue(Strip(day), 0) <= DaysInMonth(DigitsValue(year, 0), DigitsValue(month, 0))

CsvFile(exists, fieldnames, rows) ==
    [exists |-> exists, fieldnames |-> fieldnames, rows |-> rows]

ReadResult(raised, rows) == [raised |-> raised, rows |-> rows]

\* the rows loop of read_csv: the rows read so far, until a row raises
RECURSIVE read_rows(_, _, _)
read_rows(fieldnames, rows, acc) ==
    IF rows = <<>> THEN ReadResult(None, acc)
    ELSE LET cells  == Head(rows)
             number == ParseInt(Strip(RowValue(fieldnames, cells, "number")))
             date   == Strip(RowValue(fieldnames, cells, "last_validated"))
         IN  IF ~number.ok THEN ReadResult("ValueError", <<>>)
             ELSE IF ~strptime_ymd(date) THEN ReadResult("ValueError", <<>>)
             ELSE read_rows(fieldnames, Tail(rows),
                            Append(acc, Fact(number.value,
                                             Strip(RowValue(fieldnames, cells, "description")),
                                             date)))

\* read_csv(path)
read_csv(file) ==
    IF ~file.exists THEN ReadResult("FileNotFoundError", <<>>)
    ELSE IF required_cols \ {header_map(file.fieldnames[i]) : i \in 1..Len(file.fieldnames)} # {}
    THEN ReadResult("ValueError", <<>>)
    ELSE read_rows(file.fieldnames, file.rows, <<>>)

\* the header lines of the CSV files: the two naming schemes, a mix of them,
\* and a file without the date column
HeaderInputs ==
    {<<"#", "Fact", "Time Last Validated">>,
     <<"number", "description", "last_validated">>,
     <<"#", "description", "Time Last Validated">>,
     <<"number", "description", "validated">>}

NumberCells == {<<"1">>, <<" ", "1", "2", " ">>, <<"x">>}

DescriptionCells == {<<" ", "a", " ">>}

DateCells ==
    {<<"2", "0", "2", "5", "-", "0", "1", "-", "1", "5">>,
     <<"2", "0", "2", "5", "-", "1", "-", "5">>,
     <<"0", "1", "/", "1", "5", "/", "2", "0", "2", "5">>,
     <<"2", "0", "2", "5", "-", "0", "2", "-", "3", "0">>}

\* the cells of a CSV line, in column order
CellInputs == {<<n, d, v>> : n \in NumberCells, d \in DescriptionCells, v \in DateCells}

CsvInputs ==
    {CsvFile(FALSE, <<>>, <<>>)} \cup
    {CsvFile(TRUE, h, rows) : h \in HeaderInputs, rows \in BoundedSeq(CellInputs, MaxCsvRows)}

NoCsv == [exists |-> FALSE, fieldnames |-> <<>>, rows |-> <<>>, none |-> TRUE]

NoRead == ReadResult("not read", <<>>)

\* client.table("facts").delete().neq("number", 0).execute()
delete_all(store) == {f \in store : ~(f.number # 0)}

\* client.table("facts").insert(rows).execute()
insert_rows(store, rows) == store \cup SeqRange(rows)

IdleScript ==
    /\ csv_file = NoCsv /\ csv_rows = NoRead /\ spc = "idle" /\ script_exit = None
    /\ table_before = {}

InitScript ==
    /\ csv_file \in CsvInputs
    /\ csv_rows = NoRead
    /\ spc = "start"
    /\ script_exit = None
    /\ table_before = remote_facts

ScriptFrame ==
    /\ UNCHANGED <<managerVars, healthVars, raceVars>>
    /\ UNCHANGED <<codecVars, procVars, classVars, taskVars, execVars, oracleVars,
                   slackVars>>
    /\ UNCHANGED <<supabase_client, remote_fault, remote_guidelines, local_snapshot,
                   guidelines_source, local_guidelines_file, loaded>>

\* main block, line 118: csv_rows = read_csv(); an exception ends the script
\* with status 1
ScriptReadCsv ==
    /\ spc = "start"
    /\ csv_rows' = read_csv(csv_file)
    /\ spc' = IF csv_rows'.raised = None THEN "delete" ELSE "exit"
    /\ script_exit' = IF csv_rows'.raised = None THEN None ELSE "1"
    /\ UNCHANGED <<csv_file, table_before, remote_facts>>
    /\ ScriptFrame

\* replace_facts, lines 102-107: connect (raises without SUPABASE_URL and a
\* key), then delete the existing rows; fault: execute() raises
ScriptDelete ==
    /\ spc = "delete"
    /\ \E fault \in BOOLEAN :
          IF ~supabase_client \/ fault
          THEN /\ spc' = "exit" /\ script_exit' = "1"
               /\ UNCHANGED remote_facts
          ELSE /\ spc' = "insert" /\ script_exit' = None
               /\ remote_facts' = delete_all(remote_facts)
    /\ UNCHANGED <<csv_file, csv_rows, table_before>>
    /\ ScriptFrame

\* replace_facts, lines 108-113: bulk insert; fault: execute() raises
ScriptInsert ==
    /\ spc = "insert"
    /\ \E fault \in BOOLEAN :
          IF fault
          THEN /\ spc' = "exit" /\ script_exit' = "1"
               /\ UNCHANGED remote_facts
          ELSE /\ spc' = "exit" /\ script_exit' = "0"
               /\ remote_facts' = insert_rows(remote_facts, csv_rows.rows)
    /\ UNCHANGED <<csv_file, csv_rows, table_before>>
    /\ ScriptFrame

(***************************************************************************)
(* task_executor.py: two runs of execute_automated_tasks on one store,     *)
(* their steps interleaved. The store holds one automated task.            *)
(***************************************************************************)
Runs == {1, 2}

\* what a run read at line 118, with the number of writes made before it read
Sent(kb, writes_seen) == [kb |-> kb, writes_seen |-> writes_seen]

IdleRace ==
    /\ rpc = <<>> /\ rsent = <<>> /\ rupdated = <<>> /\ rresult = <<>>
    /\ writes = <<>>

InitRace ==
    /\ rpc = [r \in Runs |-> "ready"]
    /\ rsent = [r \in Runs |-> Sent(NoKB, 0)]
    /\ rupdated = [r \in Runs |-> NoKB]
    /\ rresult = [r \in Runs |-> NoResult]
    /\ writes = <<>>

RaceFrame ==
    /\ UNCHANGED <<managerVars, healthVars, scriptVars>>
    /\ UNCHANGED <<codecVars, procVars, classVars, oracleVars, slackVars>>
    /\ UNCHANGED <<supabase_client, remote_fault, remote_guidelines, local_snapshot,
                   guidelines_source, local_guidelines_file, loaded>>
    /\ UNCHANGED <<automated_ids, run_tasks, idx, epc, sent_kb, exec_reply,
                   exec_updated, completed_count, executed_tasks, oracle_calls,
                   exec_result, events, last_committed, last_call>>

\* lines 81-111 in run r
RunStart(r) ==
    /\ rpc[r] = "ready"
    /\ \E fault \in BOOLEAN :
          LET fetched == fetch_automated_tasks(tasks, automated_ids, fault)
              pc      == after_fetch(fetched, get_knowledge_guidelines.text)
          IN  /\ rpc' = [rpc EXCEPT ![r] = IF pc = "load" THEN "load" ELSE "done"]
              /\ rresult' =
                    [rresult EXCEPT ![r] =
                        CASE pc = "load" -> NoResult
                          [] pc = "nothing" ->
                                ExecResult(TRUE, {"message", "knowledge_base_updated"},
                                           0, FALSE, <<>>)
                          [] OTHER -> ExecResult(FALSE, {"error"}, 0, FALSE, <<>>)]
    /\ UNCHANGED <<rsent, rupdated, writes, remote_facts, tasks>>
    /\ RaceFrame

\* lines 114-131 in run r: the knowledge base the oracle is sent
RunLoad(r) ==
    /\ rpc[r] = "load"
    /\ rsent' = [rsent EXCEPT ![r] = Sent(get_current_knowledge_base.kb, Len(writes))]
    /\ rpc' = [rpc EXCEPT ![r] = "oracle"]
    /\ UNCHANGED <<rupdated, rresult, writes, remote_facts, tasks>>
    /\ RaceFrame

\* lines 133-169 in run r: the oracle call and the parse
RunOracle(r) ==
    /\ rpc[r] = "oracle"
    /\ \E o \in ExecOracleOutcomes :
          LET parsed == parse_knowledge_base_response(o.content)
              kb     == KnowledgeBase(parsed.title, parsed.facts)
              pc     == IF after_oracle(o) = "continue" THEN "continue"
                        ELSE after_parse(kb)
          IN  /\ rupdated' = [rupdated EXCEPT ![r] =
                                 IF after_oracle(o) = "continue" THEN NoKB ELSE kb]
              /\ rpc' = [rpc EXCEPT ![r] = IF pc = "continue" THEN "return" ELSE pc]
    /\ UNCHANGED <<rsent, rresult, writes, remote_facts, tasks>>
    /\ RaceFrame

\* lines 171-176 in run r
RunUpsert(r) ==
    /\ rpc[r] = "upsert"
    /\ \E fault \in BOOLEAN :
          LET w  == upsert_knowledge_base(remote_facts, rupdated[r], fault)
              pc == after_upsert(w.returned)
          IN  /\ remote_facts' = w.store
              /\ writes' = IF w.returned THEN Append(writes, r) ELSE writes
              /\ rpc' = [rpc EXCEPT ![r] = IF pc = "continue" THEN "return" ELSE pc]
    /\ UNCHANGED <<rsent, rupdated, rresult, tasks>>
    /\ RaceFrame

\* lines 178-189 in run r; completed_count is kept in the result being built
RunDelete(r) ==
    /\ rpc[r] = "delete"
    /\ \E outcome \in DeleteOutcomes :
          LET d == delete_task(tasks, 1, outcome) IN
          /\ tasks' = d.store
          /\ rresult' = [rresult EXCEPT ![r].tasks_completed =
                             IF d.returned THEN @ + 1 ELSE @]
    /\ rpc' = [rpc EXCEPT ![r] = "return"]
    /\ UNCHANGED <<rsent, rupdated, writes, remote_facts>>
    /\ RaceFrame

\* lines 191-200 in run r
RunReturn(r) ==
    /\ rpc[r] = "return"
    /\ LET completed_count_r == rresult[r].tasks_completed IN
       rresult' = [rresult EXCEPT ![r] =
                      ExecResult(TRUE, {"message", "knowledge_base_updated", "executed_tasks"},
                                 completed_count_r, completed_count_r > 0,
                                 IF completed_count_r > 0 THEN <<1>> ELSE <<>>)]
    /\ rpc' = [rpc EXCEPT ![r] = "done"]
    /\ UNCHANGED <<rsent, rupdated, writes, remote_facts, tasks>>
    /\ RaceFrame

IdleExtra == IdleManager /\ IdleHealth /\ IdleScript /\ IdleRace

(***************************************************************************)
(* Specifications.                                                         *)
(***************************************************************************)
NextCodec == ToMarkdown \/ ParseResponse

InitSpecCodec ==
    /\ InitCodec /\ IdleProcess /\ IdleLoad /\ IdleClassify /\ IdleTasks
    /\ IdleExec /\ IdleOracle /\ IdleSlack
    /\ IdleExtra

SpecCodec == InitSpecCodec /\ [][NextCodec]_vars

NextParser == ParseResponse

InitSpecParser ==
    /\ InitParser /\ IdleProcess /\ IdleLoad /\ IdleClassify /\ IdleTasks
    /\ IdleExec /\ IdleOracle /\ IdleSlack
    /\ IdleExtra

SpecParser == InitSpecParser /\ [][NextParser]_vars

NextLayout == ParseResponse

InitSpecLayout ==
    /\ InitLayout /\ IdleProcess /\ IdleLoad /\ IdleClassify /\ IdleTasks
    /\ IdleExec /\ IdleOracle /\ IdleSlack
    /\ IdleExtra

SpecLayout == InitSpecLayout /\ [][NextLayout]_vars

NextProcess == ProcessCustomInput

InitSpecProcess ==
    /\ IdleCodec /\ InitProcess /\ IdleLoad /\ IdleClassify /\ IdleTasks
    /\ IdleExec /\ IdleOracle /\ IdleSlack
    /\ IdleExtra

SpecProcess == InitSpecProcess /\ [][NextProcess]_vars

NextLoad ==
    \/ GetCurrentKnowledgeBase
    \/ GetKnowledgeGuidelines
    \/ FetchKnowledgeBase
    \/ FetchGuidelines
    \/ GuidelinesLoaderLoad

InitSpecLoad ==
    /\ IdleCodec /\ IdleProcess /\ InitLoad /\ IdleClassify /\ IdleTasks
    /\ IdleExec /\ IdleOracle /\ IdleSlack
    /\ IdleExtra

SpecLoad == InitSpecLoad /\ [][NextLoad]_vars

NextClassify == AnalyzeIfTaskNeedsHuman

InitSpecClassify ==
    /\ IdleCodec /\ IdleProcess /\ IdleLoad /\ InitClassify /\ IdleTasks
    /\ IdleExec /\ IdleOracle /\ IdleSlack
    /\ IdleExtra

SpecClassify == InitSpecClassify /\ [][NextClassify]_vars

\* the task store is behind the same SupabaseService client as the facts
InitTaskStore ==
    /\ supabase_client \in BOOLEAN
    /\ remote_fault = FALSE
    /\ remote_facts = {}
    /\ remote_guidelines = None
    /\ local_snapshot = NoKB
    /\ guidelines_source = "local"
    /\ local_guidelines_file = None
    /\ loaded = NothingLoaded

NextTasks ==
    \/ UpdateTaskStatus
    \/ MarkTaskInProgress
    \/ MarkTaskCompleted
    \/ CancelTask

InitSpecTasks ==
    /\ IdleCodec /\ IdleProcess /\ InitTaskStore /\ IdleClassify /\ InitTasks
    /\ IdleExec /\ IdleOracle /\ IdleSlack
    /\ IdleExtra

SpecTasks == InitSpecTasks /\ [][NextTasks]_vars

\* one store behind the executor: a client, some facts, the tasks pending
InitExecStore ==
    /\ supabase_client \in BOOLEAN
    /\ remote_fault = FALSE
    /\ remote_facts \in RemoteFactSets
    /\ remote_guidelines = None
    /\ local_snapshot = NoKB
    /\ guidelines_source = "local"
    /\ local_guidelines_file = None
    /\ loaded = NothingLoaded

NextExec ==
    \/ ExecStart
    \/ ExecLoad
    \/ ExecOracle
    \/ ExecParse
    \/ ExecUpsert
    \/ ExecDelete
    \/ ExecCrash
    \/ ExecReturn

InitSpecExec ==
    /\ IdleCodec /\ IdleProcess /\ InitExecStore /\ IdleClassify /\ InitTasks
    /\ InitExec /\ IdleOracle /\ IdleSlack
    /\ IdleExtra

SpecExec == InitSpecExec /\ [][NextExec]_vars

\* the three call sites side by side: one task in the store
InitOneTask ==
    /\ tasks = [i \in {1} |-> "pending"]
    /\ last_call = Call("none", 0, FALSE, FALSE)
    /\ automated_ids = {1}

NextOracle ==
    \/ UkbCreate
    \/ UkbParse
    \/ UkbExcept
    \/ GenerateTasks
    \/ NextExec

InitSpecOracle ==
    /\ IdleCodec /\ IdleProcess /\ InitTaskStore /\ IdleClassify /\ InitOneTask
    /\ InitExec /\ InitOracle /\ IdleSlack
    /\ IdleExtra

SpecOracle == InitSpecOracle /\ [][NextOracle]_vars

NextSlack == SlackDoPost

InitSpecSlack ==
    /\ IdleCodec /\ IdleProcess /\ InitExecStore /\ IdleClassify /\ IdleTasks
    /\ IdleExec /\ IdleOracle /\ IdleSlack
    /\ IdleExtra

SpecSlack == InitSpecSlack /\ [][NextSlack]_vars

NextManager == AddTask \/ GetAutomatedTasks \/ GetHumanTasks

InitSpecManager ==
    /\ IdleCodec /\ IdleProcess /\ InitTaskStore /\ IdleClassify /\ InitManagerStore
    /\ IdleExecRun /\ IdleOracle /\ IdleSlack /\ IdleManager
    /\ IdleHealth /\ IdleScript /\ IdleRace

SpecManager == InitSpecManager /\ [][NextManager]_vars

NextHealth == TestSystemHealth

InitSpecHealth ==
    /\ IdleCodec /\ IdleProcess /\ IdleLoad /\ IdleClassify /\ IdleTasks
    /\ IdleExec /\ IdleOracle /\ IdleSlack
    /\ IdleManager /\ InitHealth /\ IdleScript /\ IdleRace

SpecHealth == InitSpecHealth /\ [][NextHealth]_vars

NextScript == ScriptReadCsv \/ ScriptDelete \/ ScriptInsert

InitSpecScript ==
    /\ IdleCodec /\ IdleProcess /\ InitExecStore /\ IdleClassify /\ IdleTasks
    /\ IdleExec /\ IdleOracle /\ IdleSlack
    /\ IdleManager /\ IdleHealth /\ InitScript /\ IdleRace

SpecScript == InitSpecScript /\ [][NextScript]_vars

NextRace ==
    \E r \in Runs :
        \/ RunStart(r)
        \/ RunLoad(r)
        \/ RunOracle(r)
        \/ RunUpsert(r)
        \/ RunDelete(r)
        \/ RunReturn(r)

InitSpecRace ==
    /\ IdleCodec /\ IdleProcess /\ InitExecStore /\ IdleClassify /\ InitOneTask
    /\ IdleExecRun /\ IdleOracle /\ IdleSlack
    /\ IdleManager /\ IdleHealth /\ IdleScript /\ InitRace

SpecRace == InitSpecRace /\ [][NextRace]_vars


(***************************************************************************)
(* Claims about the codec and the parser.                                  *)
(***************************************************************************)
HasNoPipe(s) == \A i \in 1..Len(s) : s[i] # "|"

\* s is one trimmed table field: no "|", no line break, no blank at either end
IsTrimmedField(s) ==
    /\ \A i \in 1..Len(s) : s[i] \notin {"|", "\n"}
    /\ s = <<>> \/ (s[1] \notin Whitespace /\ s[Len(s)] \notin Whitespace)

\* t is a title the title loop gives back: one line, no "#" or blank at either end
IsTrimmedTitle(t) ==
    /\ \A i \in 1..Len(t) : t[i] # "\n"
    /\ t = <<>> \/ (t[1] \notin Whitespace \cup {"#"} /\ t[Len(t)] \notin Whitespace \cup {"#"})

TrimmedKB(kb) ==
    /\ IsTrimmedTitle(kb.title)
    /\ \A i \in 1..Len(kb.facts) :
          /\ IsTrimmedField(kb.facts[i].description)
          /\ IsTrimmedField(kb.facts[i].last_validated)

RoundTripDone == cpc = "parsed" /\ current_knowledge_base # NoKB

\* C3 as stated: every KnowledgeBase whose descriptions hold no "|" is given
\* back unchanged by to_markdown followed by _parse_knowledge_base_response.
C3_RoundTripNoPipe ==
    (/\ RoundTripDone
     /\ \A i \in 1..Len(current_knowledge_base.facts) :
           HasNoPipe(current_knowledge_base.facts[i].description))
    => updated_knowledge_base = current_knowledge_base

\* C3 amended: the round trip gives back the same title and the same facts in
\* the same order when the title is one line with no "#" or whitespace at
\* either end and every description and last_validated is a trimmed field
\* without "|" and without a line break.
C3_RoundTripTrimmed ==
    (RoundTripDone /\ TrimmedKB(current_knowledge_base))
    => updated_knowledge_base = current_knowledge_base

C3_Witness ==
    /\ RoundTripDone
    /\ TrimmedKB(current_knowledge_base)
    /\ Len(current_knowledge_base.facts) >= 2
    /\ current_knowledge_base.facts[1].number = 12
    /\ current_knowledge_base.facts[1] # current_knowledge_base.facts[2]
    /\ updated_knowledge_base = current_knowledge_base

\* the facts of the well-formed rows, in reply order
RECURSIVE WellFormedFacts(_)
WellFormedFacts(rows) ==
    IF rows = <<>> THEN <<>>
    ELSE IF Head(rows).wf THEN <<Head(rows).fact>> \o WellFormedFacts(Tail(rows))
    ELSE WellFormedFacts(Tail(rows))

MalformedCount(rows) == Cardinality({i \in 1..Len(rows) : ~rows[i].wf})

ReplyParsed == cpc = "parsed" /\ current_knowledge_base = NoKB

\* C4: with one malformed row at any position among N well-formed rows the
\* parser returns exactly the N facts of the well-formed rows, in reply order,
\* numbers as written (repeated numbers kept).
C4_ParserTolerance ==
    (ReplyParsed /\ MalformedCount(reply_rows) = 1)
    => updated_knowledge_base.facts = WellFormedFacts(reply_rows)

C4_Witness ==
    /\ ReplyParsed
    /\ Len(reply_rows) = 3
    /\ reply_rows[1].wf /\ ~reply_rows[2].wf /\ reply_rows[3].wf
    /\ reply_rows[1].fact.number = reply_rows[3].fact.number
    /\ reply_rows[1].fact # reply_rows[3].fact
    /\ warnings = 1
    /\ Len(updated_knowledge_base.facts) = 2

\* C5: the number of skip notes the parser records equals the number of
\* malformed rows it skipped.
C5_OneNotePerSkippedRow ==
    ReplyParsed => warnings = MalformedCount(reply_rows)

(***************************************************************************)
(* Claims about the reconciliation call.                                   *)
(***************************************************************************)
Returned == ppc = "returned"

\* C1: a reply with zero parsable fact rows makes process_custom_input return
\* success=false and the original knowledge base.
C1_EmptyReplyFails ==
    (Returned /\ oracle.kind = "reply" /\ WellFormedFacts(oracle.rows) = <<>>)
    => (result.success = FALSE /\ result.updated_knowledge_base = request_kb)

CallFailed == oracle.kind \in {"raise", "no_content"} \/ step_fault

\* C2: when the oracle call or any other step raises, process_custom_input
\* returns success=false, a non-empty error_message and the knowledge base
\* that was passed in.
C2_FailureReturnsOriginal ==
    (Returned /\ CallFailed)
    => /\ result.success = FALSE
       /\ result.error_message \notin {None, ""}
       /\ result.updated_knowledge_base = request_kb

C2_Witness ==
    /\ Returned
    /\ oracle.kind = "raise"
    /\ Len(request_kb.facts) = 2
    /\ result.success = FALSE
    /\ result.updated_knowledge_base = request_kb

(***************************************************************************)
(* Claims about loading the facts and the guidelines.                      *)
(***************************************************************************)
\* the remote read gives no knowledge base
RemoteUnavailable == ~supabase_client \/ remote_fault \/ remote_facts = {}

\* C6: get_current_knowledge_base() tries the remote store first, returns the
\* local snapshot when the remote read fails and a snapshot is present, and
\* the built-in default when both are unavailable.
C6_FallbackOrder ==
    loaded.call = "get_current_knowledge_base"
    => /\ loaded.tiers # <<>> /\ loaded.tiers[1] = "remote"
       /\ (RemoteUnavailable /\ local_snapshot # NoKB) => loaded.kb = local_snapshot
       /\ (RemoteUnavailable /\ local_snapshot = NoKB) => loaded.kb = HardcodedKB

\* C7: GuidelinesLoader.load, fetch_guidelines and fetch_knowledge_base return
\* a value and never let an exception escape.
C7_LoadersNeverRaise ==
    loaded.call \in {"GuidelinesLoader.load", "fetch_guidelines", "fetch_knowledge_base"}
    => ~loaded.raised

(***************************************************************************)
(* Claims about the task classifier.                                       *)
(***************************************************************************)
HasHumanKeyword(t) == \E k \in SeqRange(human_needed_keywords) : Contains(Lower(t), k)

HasAutomatedKeyword(t) == \E k \in SeqRange(automated_keywords) : Contains(Lower(t), k)

HasIndicator(t) == \E k \in SeqRange(indicators) : Contains(Lower(t), k)

Classified == kpc = "classified"

\* C8: a task text that contains a requires-human keyword is classified
\* human-required, whatever automatable keywords and data references it holds.
C8_HumanOverrideFirst ==
    (Classified /\ HasHumanKeyword(task)) => needs_human = TRUE

C8_Witness ==
    /\ Classified
    /\ HasHumanKeyword(task) /\ HasAutomatedKeyword(task) /\ HasIndicator(task)
    /\ needs_human = TRUE

\* C9: the classifier returns automatable exactly when the text has no
\* requires-human keyword, has an automatable keyword and has one of facts,
\* knowledge base, validation, data; every other text is human-required.
C9_AutomatableExactlyWhen ==
    Classified
    => (needs_human = FALSE
        <=> (~HasHumanKeyword(task) /\ HasAutomatedKeyword(task) /\ HasIndicator(task)))

C9_Witness ==
    /\ Classified
    /\ ~HasHumanKeyword(task) /\ HasAutomatedKeyword(task) /\ HasIndicator(task)
    /\ needs_human = FALSE

(***************************************************************************)
(* Claims about the task status calls.                                     *)
(***************************************************************************)
\* C10: mark_task_in_progress, mark_task_completed and cancel_task each return
\* a boolean without raising (and so move a pending task to in_progress,
\* completed and cancelled).
C10_TransitionCallsReturn ==
    last_call.op \in {"mark_task_in_progress", "mark_task_completed", "cancel_task"}
    => ~last_call.raised

TransitionCalls ==
    {"update_task_status", "mark_task_in_progress", "mark_task_completed", "cancel_task"}

\* C11: a transition call for a task id that no stored task has returns false,
\* raises nothing and leaves every stored task as it was.
C11_UnknownIdReturnsFalse ==
    [][(last_call'.op \in TransitionCalls /\ last_call'.task_id \notin DOMAIN tasks)
       => (/\ last_call'.returned = FALSE
           /\ ~last_call'.raised
           /\ tasks' = tasks)]_vars

\* the status changes of the task lifecycle
LifecycleEdges ==
    {<<"pending", "in_progress">>, <<"in_progress", "completed">>,
     <<"pending", "completed">>, <<"pending", "cancelled">>,
     <<"in_progress", "cancelled">>}

\* C12: every change of a task's status is one of pending->in_progress,
\* in_progress->completed, pending->completed, pending->cancelled and
\* in_progress->cancelled; a completed or cancelled task keeps its status.
C12_StatusFollowsLifecycle ==
    [][\A id \in DOMAIN tasks :
          (id \in DOMAIN tasks' /\ tasks'[id] # tasks[id])
          => <<tasks[id], tasks'[id]>> \in LifecycleEdges]_vars

(***************************************************************************)
(* Claims about execute_automated_tasks.                                   *)
(***************************************************************************)
\* C13: a task leaves the task store only when, in the same run, the knowledge
\* base parsed for it had at least one fact and upsert_knowledge_base returned
\* true for it.
C13_DeleteAfterWrite ==
    [][\A id \in DOMAIN tasks :
          id \notin DOMAIN tasks'
          => /\ id \in DOMAIN events
             /\ "written" \in events[id]
             /\ "zero_facts" \notin events[id]
             /\ exec_updated.facts # <<>>
             /\ last_committed = exec_updated]_vars

C13_Witness ==
    /\ epc = "done"
    /\ \E id \in DOMAIN events :
          /\ {"written", "deleted"} \subseteq events[id]
          /\ id \notin DOMAIN tasks
    /\ \E id \in DOMAIN events :
          /\ "write_failed" \in events[id]
          /\ id \in DOMAIN tasks

FailureEvents ==
    {"oracle_failed", "zero_facts", "write_failed", "delete_failed", "crashed"}

\* the tasks of the current run that one of the failures happened to
FailedIds == {id \in DOMAIN events : events[id] \cap FailureEvents # {}}

DeletedIds == {id \in DOMAIN events : "deleted" \in events[id]}

RunEnded == epc \in {"done", "crashed"}

\* C14: a task whose oracle call failed, whose reply had no fact, whose write
\* failed, whose delete failed or after whose write the run ended is, when
\* the run has ended, still stored as pending and not counted as completed,
\* and the next run that fetches the tasks has it in its list.
C14_FailedTaskStaysPending ==
    /\ [](RunEnded
          => /\ \A id \in FailedIds :
                   /\ id \in DOMAIN tasks
                   /\ tasks[id] = "pending"
                   /\ id \notin SeqRange(executed_tasks)
             /\ completed_count = Cardinality(DeletedIds)
             /\ FailedIds \cap DeletedIds = {})
    /\ [][(RunEnded /\ epc' = "load") => FailedIds \subseteq SeqRange(run_tasks')]_vars

C14_Witness ==
    /\ epc = "done"
    /\ exec_result.success
    /\ exec_result.tasks_completed = 0
    /\ \E id1, id2 \in DOMAIN events :
          /\ {"written", "delete_failed"} \subseteq events[id1]
          /\ "oracle_failed" \in events[id2]
          /\ tasks[id1] = "pending" /\ tasks[id2] = "pending"

\* C15: once a knowledge base was written in this run, the knowledge base
\* loaded for the next task is that knowledge base (or the content of the
\* facts table after the write).
C15_NextTaskSeesCommitted ==
    (epc = "oracle" /\ last_committed # NoKB)
    => \/ sent_kb.facts = last_committed.facts
       \/ SeqRange(sent_kb.facts) = remote_facts

(***************************************************************************)
(* Claims about the knowledge base a reconciliation returns and persists.  *)
(***************************************************************************)
DistinctNumbers(facts) ==
    \A i, j \in 1..Len(facts) : facts[i].number = facts[j].number => i = j

\* C16: the knowledge base process_custom_input returns has no two facts of
\* the same number, whatever the oracle replied.
C16_UniqueNumbers ==
    Returned => DistinctNumbers(result.updated_knowledge_base.facts)

\* C17: a Slack reconciliation that returns success=true leaves the persisted
\* knowledge base equal to the one it returned (the facts table holds it, or
\* the next load gives it); one that returns success=false leaves the
\* persisted state as it was.
C17_PersistedIffSuccess ==
    [][http_response'.status \in {200, 500}
       => IF http_response'.success
          THEN \/ remote_facts' = SeqRange(http_response'.updated_knowledge_base.facts)
               \/ get_current_knowledge_base.kb = http_response'.updated_knowledge_base
          ELSE remote_facts' = remote_facts]_vars

(***************************************************************************)
(* Claims about the oracle calls.                                          *)
(***************************************************************************)
\* C18: update_knowledge_base and the processing of one task each invoke the
\* oracle at most once: after the call neither is again at its call, a call
\* that raised ends update_knowledge_base with None and leaves the task not
\* completed.
C18_NoRetry ==
    /\ ucalls <= 1
    /\ oracle_calls <= 1
    /\ ucalls = 1 => upc # "start"
    /\ oracle_calls = 1 => epc # "oracle"
    /\ (upc = "returned" /\ ukb_reply.kind = "raise") => ukb_result = NoKB
    /\ \A id \in DOMAIN events :
          "oracle_failed" \in events[id] => events[id] = {"oracle_failed"}

C18_Witness ==
    /\ upc = "returned" /\ ukb_reply.kind = "raise" /\ ucalls = 1
    /\ ukb_result = NoKB
    /\ epc = "done" /\ oracle_calls = 1
    /\ \E id \in DOMAIN events : events[id] = {"oracle_failed"}

\* the two request shapes
SingleUserShape(r) == r.roles = <<"user">> /\ r.temperature = None

SystemUserShape(r) == r.roles = <<"system", "user">> /\ r.temperature = "0.1"

\* C19: for one model name the requests of update_knowledge_base,
\* execute_automated_tasks and generate_tasks have the same shape: all a
\* single user message without temperature, or all a system and a user
\* message with temperature 0.1.
C19_SameShapeEverySite ==
    LET sent == {s \in Sites : requests[s] # NoRequest} IN
    \/ \A s \in sent : SingleUserShape(requests[s])
    \/ \A s \in sent : SystemUserShape(requests[s])

(***************************************************************************)
(* Claims about the end states of process_custom_input.                    *)
(***************************************************************************)
\* C20: process_custom_input returns a ProcessingResponse that is either
\* success=true without error_message or success=false with an
\* error_message, also when a step inside it raised.
C20_TwoEndStates ==
    Returned
    => \/ (result.success = TRUE /\ result.error_message = None)
       \/ (result.success = FALSE /\ result.error_message \notin {None, ""})

C20_Witness ==
    /\ Returned
    /\ step_fault
    /\ oracle.kind = "reply" /\ WellFormedFacts(oracle.rows) # <<>>
    /\ result.success = FALSE
    /\ result.error_message \notin {None, ""}

(***************************************************************************)
(* Claims about substring matching in the task classifier.                 *)
(***************************************************************************)
\* a requires-human keyword stands in the text as a word of its own
HasWholeHumanKeyword(t) ==
    \E k \in SeqRange(human_needed_keywords) : Contains(Padded(Lower(t)), Padded(k))

\* a requires-human keyword occurs in the text, but only inside longer words
HumanKeywordInsideWord(t) == HasHumanKeyword(t) /\ ~HasWholeHumanKeyword(t)

\* C28: keywords are matched as substrings of the lower-cased text: a text
\* that holds a requires-human keyword only inside a longer word ('task'
\* holds 'ask') is classified human-required, also when it has an
\* automatable keyword and a data reference.
C28_SubstringMatch ==
    (Classified /\ HumanKeywordInsideWord(task)) => needs_human = TRUE

C28_Witness ==
    /\ Classified
    /\ HumanKeywordInsideWord(task)
    /\ HasAutomatedKeyword(task) /\ HasIndicator(task)
    /\ needs_human = TRUE

(***************************************************************************)
(* Claims about the title and the table gate of the reply parser.          *)
(***************************************************************************)
LayoutParsed == cpc = "parsed" /\ reply_rows # <<>> /\ \A i \in 1..Len(reply_rows) : "kind" \in DOMAIN reply_rows[i]

\* positions of the reply lines that begin with one "#" and not with "##"
TitleLines(ls) ==
    {i \in 1..Len(ls) : ls[i].line[1] = "#" /\ (Len(ls[i].line) < 2 \/ ls[i].line[2] # "#")}

\* positions of the header and separator lines
MarkerLines(ls) == {i \in 1..Len(ls) : ls[i].kind = "marker"}

Least(S) == CHOOSE i \in S : \A j \in S : i <= j

\* the heading line without its "#" and the blanks around the rest
HeadingText(line) == Strip(DropTo(line, 2))

\* the facts of the rows that stand after the first marker line, in reply order
RECURSIVE GatedFacts(_, _)
GatedFacts(ls, i) ==
    IF i > Len(ls) THEN <<>>
    ELSE (IF ls[i].kind = "row" /\ \E m \in MarkerLines(ls) : m < i
          THEN <<ls[i].fact>> ELSE <<>>) \o GatedFacts(ls, i + 1)

RowsBeforeMarker(ls) ==
    {i \in 1..Len(ls) : ls[i].kind = "row" /\ \A m \in MarkerLines(ls) : i < m}

\* C24: the parsed title is the text of the first reply line that begins with
\* one "#" and not "##"; a reply without such a line gets the default title
\* 'Current RN Project Facts' and its fact rows are parsed all the same.
C24_TitleExtraction ==
    LayoutParsed
    => IF TitleLines(reply_rows) # {}
       THEN updated_knowledge_base.title =
                HeadingText(reply_rows[Least(TitleLines(reply_rows))].line)
       ELSE /\ updated_knowledge_base.title = DefaultTitle
            /\ updated_knowledge_base.facts = GatedFacts(reply_rows, 1)

C24_Witness ==
    /\ LayoutParsed
    /\ Len(reply_rows) = 3
    /\ reply_rows[1].kind = "subheading"
    /\ reply_rows[2].kind = "title" /\ reply_rows[3].kind = "title"
    /\ reply_rows[2].line # reply_rows[3].line
    /\ updated_knowledge_base.title = HeadingText(reply_rows[2].line)

\* the reply has no title line, and the default title comes with parsed facts
C24_WitnessDefault ==
    /\ LayoutParsed
    /\ TitleLines(reply_rows) = {}
    /\ updated_knowledge_base.title = DefaultTitle
    /\ updated_knowledge_base.facts # <<>>

\* C25: a row line becomes a fact only if a header or separator line stands
\* before it in the reply; row lines before the first marker are ignored.
C25_TableGating ==
    LayoutParsed => updated_knowledge_base.facts = GatedFacts(reply_rows, 1)

C25_Witness ==
    /\ LayoutParsed
    /\ RowsBeforeMarker(reply_rows) # {}
    /\ MarkerLines(reply_rows) # {}
    /\ updated_knowledge_base.facts # <<>>
    /\ Len(updated_knowledge_base.facts) < Cardinality({i \in 1..Len(reply_rows) : reply_rows[i].kind = "row"})

(***************************************************************************)
(* Claims about what a write leaves alone.                                 *)
(***************************************************************************)
NumbersOf(facts) == {facts[i].number : i \in 1..Len(facts)}

\* C26: upsert_knowledge_base(kb) inserts or overwrites only the stored rows
\* whose number appears in kb; every stored fact whose number is absent from
\* kb is left as it was (a fact the oracle dropped stays in the store).
C26_UpsertFrame ==
    [][epc = "upsert"
       => /\ \A f \in remote_facts :
                f.number \notin NumbersOf(exec_updated.facts) => f \in remote_facts'
          /\ \A f \in remote_facts' :
                f.number \notin NumbersOf(exec_updated.facts) => f \in remote_facts]_vars

\* a write succeeded and the table still holds a fact of a number that the
\* written knowledge base does not have
C26_Witness ==
    /\ epc = "delete"
    /\ "written" \in events[run_tasks[idx]]
    /\ last_committed = exec_updated
    /\ \E f \in remote_facts : f.number \notin NumbersOf(exec_updated.facts)
    /\ \E f \in remote_facts : f.number \in NumbersOf(exec_updated.facts)

(***************************************************************************)
(* Claims about the summary of an executor run.                            *)
(***************************************************************************)
\* the tasks of the run whose knowledge base was written to the facts table
WrittenIds == {id \in DOMAIN events : "written" \in events[id]}

\* C29: in the result of execute_automated_tasks, knowledge_base_updated is
\* true exactly when at least one updated knowledge base was written to the
\* facts table during the run.
C29_UpdatedIffWritten ==
    (epc = "done" /\ exec_result.success)
    => (exec_result.knowledge_base_updated <=> WrittenIds # {})

(***************************************************************************)
(* Claims about the listings of pending tasks.                             *)
(***************************************************************************)
ListedIds(l) == {l.ids[k] : k \in 1..Len(l.ids)}

PendingIds(store) == {i \in DOMAIN store : store[i] = "pending"}

\* both listings were served from the same store
SameStore ==
    /\ automated_listing.called /\ automated_listing.served
    /\ human_listing.called /\ human_listing.served
    /\ automated_listing.store = human_listing.store
    /\ automated_listing.automated = human_listing.automated

\* C27: a task stored as requiring human input is never returned by
\* get_automated_tasks, and every pending task is returned by exactly one of
\* get_automated_tasks and get_human_tasks, the one its stored flag names.
C27_ListingsFollowFlag ==
    /\ automated_listing.called
       => ListedIds(automated_listing) \subseteq automated_listing.automated
    /\ SameStore
       => \A i \in PendingIds(automated_listing.store) :
             /\ (i \in ListedIds(automated_listing)) <=> (i \in automated_listing.automated)
             /\ (i \in ListedIds(human_listing)) <=> (i \notin human_listing.automated)

(***************************************************************************)
(* Claims about the health check.                                          *)
(***************************************************************************)
HealthChecked == health_status # NoHealth

ComponentsOf(h) ==
    {h.components.chatgpt_api, h.components.environment, h.components.hardcoded_data}

\* the test call to the oracle did not succeed
ConnectionFailed(inp) == inp.raised \/ ~test_connection(inp.oracle)

\* C30: test_system_health reports overall_status 'healthy' only when every
\* component it checked is 'healthy'; with a failed oracle connection test, a
\* missing OPENAI_API_KEY or a failed data load the overall status is
\* 'degraded' or 'unhealthy'.
C30_HealthyOnlyIfAllHealthy ==
    HealthChecked
    => /\ health_status.overall_status = "healthy"
            => ComponentsOf(health_status) = {"healthy"}
       /\ (ConnectionFailed(health_input) \/ ~health_input.env_key
                \/ health_input.data_fault)
            => health_status.overall_status \in {"degraded", "unhealthy"}

(***************************************************************************)
(* Claims about scripts/replace_facts.py.                                  *)
(***************************************************************************)
\* replace_facts was called and the script has ended
ReplaceFactsEnded == spc = "exit" /\ csv_rows.raised = None

\* C21: replace_facts is transactional: when it has run, the facts table holds
\* exactly the CSV rows (every earlier row removed) or, if a step failed, what
\* it held before; never the old rows deleted and the new rows not inserted.
C21_Transactional ==
    ReplaceFactsEnded
    => \/ remote_facts = SeqRange(csv_rows.rows)
       \/ remote_facts = table_before

HeaderSchemes ==
    {<<"#", "Fact", "Time Last Validated">>, <<"number", "description", "last_validated">>}

\* an integer in decimal digits, blanks around it allowed
IsIntegerText(s) ==
    LET t    == Strip(s)
        body == IF t # <<>> /\ t[1] \in {"-", "+"} THEN Tail(t) ELSE t
    IN  body # <<>> /\ \A i \in 1..Len(body) : body[i] \in Digits

\* a date written YYYY-MM-DD, blanks around it allowed
IsIsoDate(s) ==
    LET t == Strip(s) IN
    /\ Len(t) = 10
    /\ \A i \in {1, 2, 3, 4, 6, 7, 9, 10} : t[i] \in Digits
    /\ t[5] = "-" /\ t[8] = "-"

\* the data lines (number, description, date) that the claim says are refused
RefusedLines(rows) ==
    {i \in 1..Len(rows) : ~IsIntegerText(rows[i][1]) \/ ~IsIsoDate(rows[i][3])}

\* a date of the calendar written YYYY-MM-DD
IsCalendarDate(s) ==
    LET t == Strip(s)
        y == DigitsValue(SubSeq(t, 1, 4), 0)
        m == DigitsValue(SubSeq(t, 6, 7), 0)
        d == DigitsValue(SubSeq(t, 9, 10), 0)
    IN  IsIsoDate(s) /\ y >= 1 /\ m \in 1..12 /\ d \in 1..DaysInMonth(y, m)

\* the data lines with an integer and a date of the calendar
AcceptedLines(rows) ==
    {i \in 1..Len(rows) : IsIntegerText(rows[i][1]) /\ IsCalendarDate(rows[i][3])}

CsvWasRead == spc \notin {"idle", "start"} /\ csv_file.exists

\* C22: read_csv accepts both header schemes ('#', 'Fact', 'Time Last
\* Validated' and 'number', 'description', 'last_validated'), returns the rows
\* under the canonical keys, and rejects a row whose number is not an integer
\* or whose date is not YYYY-MM-DD.
C22_ReadCsv ==
    (CsvWasRead /\ csv_file.fieldnames \in HeaderSchemes)
    => /\ RefusedLines(csv_file.rows) # {} => csv_rows.raised # None
       /\ AcceptedLines(csv_file.rows) = 1..Len(csv_file.rows)
            => /\ csv_rows.raised = None
               /\ csv_rows.rows =
                     [i \in 1..Len(csv_file.rows) |->
                         Fact(ParseInt(csv_file.rows[i][1]).value,
                              Strip(csv_file.rows[i][2]), Strip(csv_file.rows[i][3]))]

(***************************************************************************)
(* Claims about two interleaved executor runs.                             *)
(***************************************************************************)
\* run r wrote after the other run did, having read before any write
WroteOverOther(r) ==
    /\ Len(writes) = 2 /\ writes[2] = r /\ writes[1] # r
    /\ rsent[r].writes_seen = 0

\* C23: when two executor runs are interleaved on one store and both read
\* before either writes, the later write is applied over the earlier one
\* without any version check (last write wins), and both runs report success.
C23_LastWriteWins ==
    \A r \in Runs :
        WroteOverOther(r)
        => /\ LastRows(rupdated[r].facts) \subseteq remote_facts
           /\ \A q \in Runs : rpc[q] = "done" => rresult[q].success

\* both runs read before either wrote, wrote fact 1 with different texts and
\* reported the update; the store holds the later writer's text only
C23_Witness ==
    \E r \in Runs, q \in Runs :
        /\ r # q /\ WroteOverOther(r) /\ rsent[q].writes_seen = 0
        /\ rpc[r] = "done" /\ rpc[q] = "done"
        /\ rresult[r].success /\ rresult[q].success
        /\ rresult[r].knowledge_base_updated /\ rresult[q].knowledge_base_updated
        /\ \E f \in LastRows(rupdated[q].facts) :
              /\ f \notin remote_facts
              /\ \E g \in remote_facts \cap LastRows(rupdated[r].facts) :
                    g.number = f.number

====
